---- MODULE Spec2Model ----
(***************************************************************************)
(* Model of the belief-propagation LDPC decoders (flooding and horizontal  *)
(* layered schedules, 8-bit min*-approximation arithmetic) and of the      *)
(* multi-worker BER simulation harness of ldpc-toolbox.                    *)
(*                                                                         *)
(* Node indices are 1-based here (0-based in the source).  A channel LLR   *)
(* (an f64 in the source) is represented by the integer n standing for the *)
(* real number n/32, so that quantization (multiplication by 8 and         *)
(* rounding) is not the identity.                                          *)
(***************************************************************************)
EXTENDS Integers, Sequences, FiniteSets, TLC

VARIABLES
    \* ---- decoder (decoder/flooding.rs, decoder/horizontal_layered.rs)
    schedule,           \* "flooding" or "layered": which Decoder type is built
    arithmetic,         \* the DecoderArithmetic: its three clipping switches
    h,                  \* the parity check matrix (SparseMatrix)
    flooding,           \* the flooding Decoder: input_llrs, output_llrs,
                        \* check_messages, variable_messages (per destination)
    layered,            \* the layered Decoder: llrs (Qv), check_messages
                        \* (Rcv, per source)
    call,               \* arguments of the last decode call
    result,             \* what the last decode call returned
    ncalls              \* number of decode calls made on this instance

decoderVars == <<schedule, arithmetic, h, flooding, layered, call, result, ncalls>>

VARIABLES
    test,               \* the BerTest configuration: geometry of puncturer and
                        \* interleaver, max_frame_errors, bch_max_errors,
                        \* whether a reporter is configured
    apc,                \* where run/do_run (the aggregator) is
    point,              \* index of the Eb/N0 of the current loop iteration
    turn,               \* position in the terminate loop or in the join loop
    current_statistics, \* CurrentStatistics of the current Eb/N0
    join_error,         \* join_error: 0 for None, else the worker whose error it is
    statistics,         \* self.statistics
    reports,            \* the reports sent on reporter.tx, in order
    ret,                \* what run returned
    wpc,                \* per worker: where Worker::work is
    terminate,          \* per worker: messages buffered in its terminate channel
    frames,             \* per worker: frames simulated in this Eb/N0
    results,            \* the results channel of the current Eb/N0 (FIFO)
    signalled,          \* per worker: the aggregator has sent it the terminate signal
    sent_after,         \* per worker: results it sent after that signal was sent
    received_sentinel   \* the worker whose failure sentinel the aggregator received

berVars == <<test, apc, point, turn, current_statistics, join_error, statistics,
             reports, ret, wpc, terminate, frames, results, signalled,
             sent_after, received_sentinel>>

VARIABLES
    \* ---- one function or component followed on its own (arithmetic rules,
    \* decoder factory, puncturer, interleaver, Worker::simulate)
    unit,               \* which function is followed, with the object it is
                        \* called on (pattern, columns, arithmetic, ...)
    input,              \* the arguments of its last call
    output              \* what that call returned or emitted

unitVars == <<unit, input, output>>

vars == <<decoderVars, berVars, unitVars>>

\* ------------------------------------------------------------------ bounds

\* Largest max_iterations passed to decode.
MaxIter == 2

\* Number of decode calls made on one decoder instance.
MaxCalls == 2

\* Number of worker threads (num_cpus::get()).
NumWorkers == 2

\* Number of Eb/N0 values of a BER test.
NumPoints == 2

\* Frames one worker simulates for one Eb/N0.
MaxFrames == 2

\* Periodic reports sent for one Eb/N0.
MaxPeriodic == 1

\* ------------------------------------------------------- sequence helpers

RECURSIVE SumSeq(_)
SumSeq(s) == IF s = <<>> THEN 0 ELSE Head(s) + SumSeq(Tail(s))

\* The sequence s with every element evaluated: a built Vec or boxed slice
\* (TLC would otherwise keep a function constructor unevaluated).
Collect(s) == SubSeq(s, 1, Len(s))

Abs(x) == IF x < 0 THEN -x ELSE x

Min(x, y) == IF x <= y THEN x ELSE y

Max(x, y) == IF x >= y THEN x ELSE y

\* The value x has been computed: a loop of the source finishes one pass
\* before it starts the next one, so that a fold over a range evaluates its
\* left part before it hands the result to its right part.
Computed(x) == x = x

\* ------------------------------------------------------ parity check matrix

\* SparseMatrix::new(nrows, ncols): the zero matrix.
SparseNew(nrows, ncols) ==
    [rows |-> Collect([r \in 1..nrows |-> <<>>]), cols |-> Collect([c \in 1..ncols |-> <<>>])]

Contains(m, row, col) == \E i \in 1..Len(m.cols[col]) : m.cols[col][i] = row

\* An insert that does not look whether the one is already present.
insert_unchecked(m, row, col) ==
    [rows |-> [m.rows EXCEPT ![row] = Append(@, col)],
     cols |-> [m.cols EXCEPT ![col] = Append(@, row)]]

\* SparseMatrix::insert: pushes the one to both views unless already present.
Insert(m, row, col) ==
    IF Contains(m, row, col) THEN m
    ELSE [rows |-> [m.rows EXCEPT ![row] = Append(@, col)],
          cols |-> [m.cols EXCEPT ![col] = Append(@, row)]]

RECURSIVE InsertRow(_, _, _)
InsertRow(m, row, cs) ==
    IF cs = <<>> THEN m ELSE InsertRow(Insert(m, row, Head(cs)), row, Tail(cs))

RECURSIVE InsertRowsRange(_, _, _, _, _)
\* insert_row for the rows lo..hi of rowlist in order, row i of the list
\* being row r + i - 1 of the matrix.
InsertRowsRange(m, r, rowlist, lo, hi) ==
    IF lo > hi THEN m
    ELSE IF lo = hi THEN InsertRow(m, r + lo - 1, rowlist[lo])
    ELSE LET mid == (lo + hi) \div 2
             left == InsertRowsRange(m, r, rowlist, lo, mid)
         IN  IF Computed(left) THEN InsertRowsRange(left, r, rowlist, mid + 1, hi) ELSE m

InsertRows(m, r, rowlist) == InsertRowsRange(m, r, rowlist, 1, Len(rowlist))

\* A matrix built as the tests do: new, then insert_row for each row in turn.
FromRows(ncols, rowlist) == InsertRows(SparseNew(Len(rowlist), ncols), 1, rowlist)

num_rows(m) == Len(m.rows)

num_cols(m) == Len(m.cols)

iter_row(m, r) == m.rows[r]

iter_col(m, c) == m.cols[c]

\* The parity check matrices the decoder is built with.  All check nodes have
\* degree >= 2 and there are variable nodes of degree one and two.
Matrices ==
    { FromRows(2, << <<1, 2>> >>),
      FromRows(3, << <<1, 2, 3>>, <<2, 3>> >>) }

\* ---------------------------------------------------- 8-bit arithmetic

QUANTIZER_C == 8

\* The table built by new(): round(8 * ln(1 + exp(-t/8))) for t = 0, 1, ...
\* while the rounded value is positive.
table == <<6, 5, 5, 4, 4, 3, 3, 3, 3, 2, 2, 2, 2, 1, 1, 1, 1, 1, 1, 1, 1, 1>>

lookup(x) == IF x + 1 <= Len(table) THEN table[x + 1] ELSE 0

clip(x) == IF x >= 127 THEN 127 ELSE IF x <= -127 THEN -127 ELSE x

\* f64::round of the rational p/q (q > 0): half-way cases away from zero.
RoundHalfAway(p, q) ==
    IF p >= 0 THEN (2 * p + q) \div (2 * q) ELSE -((2 * (-p) + q) \div (2 * q))

\* input_llr_quantize: the argument n stands for the f64 n/32.
input_llr_quantize(n) ==
    LET p == QUANTIZER_C * n
    IN  IF p >= 127 * 32 THEN 127
        ELSE IF p <= -127 * 32 THEN -127
        ELSE RoundHalfAway(p, 32)

llr_hard_decision(llr) == llr <= 0

llr_to_var_message(llr) == llr

jones_clip(a, x) == IF a.jones THEN clip(x) ELSE x

partial_hard_limit(a, x) ==
    IF a.phl
    THEN (IF x <= -100 THEN -127 ELSE IF x >= 100 THEN 127 ELSE x)
    ELSE x

degree_one_clipping(a, x, degree_one) ==
    IF a.deg1 /\ degree_one
    THEN (IF x <= -116 THEN -116 ELSE IF x >= 116 THEN 116 ELSE x)
    ELSE x

\* The inner loop of send_check_messages: folds the messages other than the
\* excluded one into (sign, minstar); acc.some is FALSE while minstar is None.
RECURSIVE MinstarFold(_, _, _)
MinstarFold(msgs, exclude, acc) ==
    IF msgs = <<>> THEN acc
    ELSE LET msg == Head(msgs)
             x == Abs(msg.value)
             sign == IF msg.value < 0 THEN 1 - acc.sign ELSE acc.sign
             next ==
                 IF msg.source = exclude THEN acc
                 ELSE IF ~acc.some THEN [some |-> TRUE, sign |-> sign, minstar |-> x]
                 ELSE [some |-> TRUE, sign |-> sign,
                       minstar |-> Max(Min(x, acc.minstar)
                                         - lookup(Abs(x - acc.minstar)), 0)]
         IN  MinstarFold(Tail(msgs), exclude, next)

\* The min* rule without the exclusion of the destination: every message is
\* folded, the one of the destination included.
send_check_messages_all(a, var_messages) ==
    Collect([j \in 1..Len(var_messages) |->
        LET acc == MinstarFold(var_messages, 0,
                               [some |-> FALSE, sign |-> 0, minstar |-> 0])
            minstar == IF acc.sign = 0 THEN acc.minstar ELSE -acc.minstar
        IN  [dest |-> var_messages[j].source,
             value |-> partial_hard_limit(a, minstar)]])

\* send_check_messages of Minstarapproxi8*: the sequence of SentMessage it
\* sends, in order.  A check node with a single message makes it panic
\* (expect on None); the model then sends 0 and is only used on degree >= 2.
send_check_messages(a, var_messages) ==
    Collect([j \in 1..Len(var_messages) |->
        LET acc == MinstarFold(var_messages, var_messages[j].source,
                               [some |-> FALSE, sign |-> 0, minstar |-> 0])
            minstar == IF acc.sign = 0 THEN acc.minstar ELSE -acc.minstar
        IN  [dest |-> var_messages[j].source,
             value |-> partial_hard_limit(a, minstar)]])

\* An i16 result as a release build keeps it: two's complement wrapping (a
\* debug build panics instead, see send_var_messages_overflows).
I16(x) == ((x + 32768) % 65536) - 32768

FitsI16(x) == -32768 <= x /\ x <= 32767

\* The exact sum of values[lo..hi] (the range is halved so that a long
\* sequence needs no deep recursion).
RECURSIVE SumRange(_, _, _)
SumRange(values, lo, hi) ==
    IF lo > hi THEN 0
    ELSE IF lo = hi THEN values[lo]
    ELSE LET mid == (lo + hi) \div 2
         IN  SumRange(values, lo, mid) + SumRange(values, mid + 1, hi)

\* .sum::<i16>(): the values added one after the other to acc, each
\* addition wrapping; wrapping addition is addition modulo 2^16, so the
\* result is the exact sum wrapped once.
SumI16(values, acc) == I16(acc + SumRange(values, 1, Len(values)))

\* send_var_messages with the Jones clipping applied to the messages after
\* the extrinsic subtraction instead of to the sum before it.
send_var_messages_jones_late(a, input_llr, cmsgs) ==
    LET degree_one == Len(cmsgs) = 1
        sum == I16(degree_one_clipping(a, input_llr, degree_one)
                     + SumI16(Collect([i \in 1..Len(cmsgs) |-> cmsgs[i].value]), 0))
    IN  [llr  |-> clip(sum),
         sent |-> Collect([i \in 1..Len(cmsgs) |->
                     [dest |-> cmsgs[i].source,
                      value |-> clip(jones_clip(a, I16(sum - cmsgs[i].value)))]])]

\* send_var_messages (impl_send_var_messages_i8): the new LLR and the
\* sequence of SentMessage it sends.
send_var_messages(a, input_llr, cmsgs) ==
    LET degree_one == Len(cmsgs) = 1
        sum == I16(degree_one_clipping(a, input_llr, degree_one)
                     + SumI16(Collect([i \in 1..Len(cmsgs) |-> cmsgs[i].value]), 0))
        llr == jones_clip(a, sum)
    IN  [llr  |-> clip(llr),
         sent |-> Collect([i \in 1..Len(cmsgs) |->
                     [dest |-> cmsgs[i].source, value |-> clip(I16(llr - cmsgs[i].value))]])]

\* Every partial sum of .sum::<i16>() is representable.
PartialSumsFit(values, acc) ==
    \A i \in 1..Len(values) : FitsI16(acc + SumRange(values, 1, i))

\* send_var_messages: some i16 addition or subtraction of the call
\* overflows (a panic in a debug build, a wrapped value in a release build).
send_var_messages_overflows(a, input_llr, cmsgs) ==
    LET values == Collect([i \in 1..Len(cmsgs) |-> cmsgs[i].value])
        total == degree_one_clipping(a, input_llr, Len(cmsgs) = 1)
                   + SumRange(values, 1, Len(values))
    IN  \/ ~PartialSumsFit(values, 0)
        \/ ~FitsI16(total)
        \/ \E i \in 1..Len(values) : ~FitsI16(jones_clip(a, total) - values[i])

\* ------------------------------------------------------- message stores

\* Messages::from_iter: one slot per (destination, source) listed, value 0.
MessagesFromIter(lists) ==
    Collect([d \in 1..Len(lists) |->
        Collect([i \in 1..Len(lists[d]) |-> [source |-> lists[d][i], value |-> 0]])])

\* Messages::send: overwrites the first slot of the destination whose source
\* matches (the source panics when there is none).
send(msgs, source, destination, value) ==
    LET slice == msgs[destination]
        hits == {i \in 1..Len(slice) : slice[i].source = source}
    IN  IF hits = {} THEN msgs
        ELSE LET i == CHOOSE k \in hits : \A l \in hits : k <= l
             IN  [msgs EXCEPT ![destination] = Collect([@ EXCEPT ![i].value = value])]

\* SentMessages::from_iter (layered): one slot per (source, destination).
SentMessagesFromIter(lists) ==
    Collect([s \in 1..Len(lists) |->
        Collect([i \in 1..Len(lists[s]) |-> [dest |-> lists[s][i], value |-> 0]])])

RECURSIVE SendRange(_, _, _, _, _)
\* The send closure applied to the SentMessages lo..hi of a node, in order
\* (the range is halved so that a node of high degree needs no deep
\* recursion; the order of the sends is that of the loop).
SendRange(msgs, source, sent, lo, hi) ==
    IF lo > hi THEN msgs
    ELSE IF lo = hi THEN send(msgs, source, sent[lo].dest, sent[lo].value)
    ELSE LET mid == (lo + hi) \div 2
             left == SendRange(msgs, source, sent, lo, mid)
         IN  IF Computed(left) THEN SendRange(left, source, sent, mid + 1, hi) ELSE msgs

\* The send closure applied to each SentMessage of a node, in order.
SendAll(msgs, source, sent) == SendRange(msgs, source, sent, 1, Len(sent))

\* ------------------------------------------------- parity and hard decision

\* The closure of decode applied to the raw input LLRs: x <= 0.0.
input_llrs_hard_decision(x) == x <= 0

\* check_llrs, given the sequence of hard decisions (booleans) of the LLRs:
\* no row has an odd number of ones.
check_llrs(hm, hd) ==
    ~ \E r \in 1..num_rows(hm) :
        Cardinality({i \in 1..Len(iter_row(hm, r)) : hd[iter_row(hm, r)[i]]}) % 2 = 1

\* hard_decisions: u8::from of each hard decision.
hard_decisions(hd) == Collect([i \in 1..Len(hd) |-> IF hd[i] THEN 1 ELSE 0])

\* --------------------------------------------------------- flooding decoder

\* A Decoder::new that builds both stores from the rows of the matrix.
FloodingNewFromRows(hm) ==
    [input_llrs        |-> Collect([c \in 1..num_cols(hm) |-> 0]),
     output_llrs       |-> Collect([c \in 1..num_cols(hm) |-> 0]),
     check_messages    |-> MessagesFromIter(Collect([r \in 1..num_rows(hm) |-> iter_row(hm, r)])),
     variable_messages |-> MessagesFromIter(Collect([r \in 1..num_rows(hm) |-> iter_row(hm, r)]))]

\* flooding::Decoder::new
FloodingNew(hm) ==
    [input_llrs        |-> Collect([c \in 1..num_cols(hm) |-> 0]),
     output_llrs       |-> Collect([c \in 1..num_cols(hm) |-> 0]),
     check_messages    |-> MessagesFromIter(Collect([c \in 1..num_cols(hm) |-> iter_col(hm, c)])),
     variable_messages |-> MessagesFromIter(Collect([r \in 1..num_rows(hm) |-> iter_row(hm, r)]))]

RECURSIVE InitSendRange(_, _, _, _, _)
\* The second loop of initialize, for the variable nodes lo..hi in order.
InitSendRange(vmsgs, hm, in_llrs, lo, hi) ==
    IF lo > hi THEN vmsgs
    ELSE IF lo = hi
    THEN SendAll(vmsgs, lo,
                 Collect([i \in 1..Len(iter_col(hm, lo)) |->
                     [dest |-> iter_col(hm, lo)[i],
                      value |-> llr_to_var_message(in_llrs[lo])]]))
    ELSE LET mid == (lo + hi) \div 2
             left == InitSendRange(vmsgs, hm, in_llrs, lo, mid)
         IN  IF Computed(left) THEN InitSendRange(left, hm, in_llrs, mid + 1, hi) ELSE vmsgs

\* The second loop of initialize, from variable node v on.
InitSend(vmsgs, hm, in_llrs, v) == InitSendRange(vmsgs, hm, in_llrs, v, num_cols(hm))

\* flooding::Decoder::initialize
initialize(d, hm, raw) ==
    LET in_llrs == Collect([v \in 1..Len(raw) |-> input_llr_quantize(raw[v])])
    IN  [d EXCEPT !.input_llrs = in_llrs,
                  !.variable_messages = InitSend(d.variable_messages, hm, in_llrs, 1)]

RECURSIVE CheckNodesRange(_, _, _, _, _)
\* The loop of process_check_nodes for the check nodes lo..hi in order.
CheckNodesRange(cmsgs, vmsgs, a, lo, hi) ==
    IF lo > hi THEN cmsgs
    ELSE IF lo = hi THEN SendAll(cmsgs, lo, send_check_messages(a, vmsgs[lo]))
    ELSE LET mid == (lo + hi) \div 2
             left == CheckNodesRange(cmsgs, vmsgs, a, lo, mid)
         IN  IF Computed(left) THEN CheckNodesRange(left, vmsgs, a, mid + 1, hi) ELSE cmsgs

\* The loop of process_check_nodes from check node c on.
CheckNodesFrom(cmsgs, vmsgs, a, c) == CheckNodesRange(cmsgs, vmsgs, a, c, Len(vmsgs))

\* flooding::Decoder::process_check_nodes
process_check_nodes(d, a) ==
    [d EXCEPT !.check_messages = CheckNodesFrom(d.check_messages, d.variable_messages, a, 1)]

RECURSIVE VariableNodesRange(_, _, _, _)
\* The loop of process_variable_nodes for the variable nodes lo..hi in order.
VariableNodesRange(d, a, lo, hi) ==
    IF lo > hi THEN d
    ELSE IF lo = hi
    THEN LET r == send_var_messages(a, d.input_llrs[lo], d.check_messages[lo])
         IN  [d EXCEPT !.output_llrs[lo] = r.llr,
                       !.variable_messages = SendAll(d.variable_messages, lo, r.sent)]
    ELSE LET mid == (lo + hi) \div 2
             left == VariableNodesRange(d, a, lo, mid)
         IN  IF Computed(left) THEN VariableNodesRange(left, a, mid + 1, hi) ELSE d

\* The loop of process_variable_nodes from variable node v on.
VariableNodesFrom(d, a, v) == VariableNodesRange(d, a, v, Len(d.check_messages))

\* flooding::Decoder::process_variable_nodes
process_variable_nodes(d, a) == VariableNodesFrom(d, a, 1)

\* The hard decisions of the decoder's posteriors.
OutputHard(d) == Collect([v \in 1..Len(d.output_llrs) |-> llr_hard_decision(d.output_llrs[v])])

RECURSIVE FloodingIterateExclusive(_, _, _, _, _)
\* FloodingIterate with the loop written "for iteration in 1..max_iterations":
\* the last iteration is never run.
FloodingIterateExclusive(d, hm, a, iteration, max_iterations) ==
    IF iteration >= max_iterations
    THEN [dec |-> d,
          res |-> [ok |-> FALSE, codeword |-> hard_decisions(OutputHard(d)),
                   iterations |-> max_iterations]]
    ELSE LET d2 == process_variable_nodes(process_check_nodes(d, a), a)
         IN  IF check_llrs(hm, OutputHard(d2))
             THEN [dec |-> d2,
                   res |-> [ok |-> TRUE, codeword |-> hard_decisions(OutputHard(d2)),
                            iterations |-> iteration]]
             ELSE FloodingIterateExclusive(d2, hm, a, iteration + 1, max_iterations)

RECURSIVE FloodingIterate(_, _, _, _, _)
\* The loop "for iteration in 1..=max_iterations" of decode and what follows it.
FloodingIterate(d, hm, a, iteration, max_iterations) ==
    IF iteration > max_iterations
    THEN [dec |-> d,
          res |-> [ok |-> FALSE, codeword |-> hard_decisions(OutputHard(d)),
                   iterations |-> max_iterations]]
    ELSE LET d2 == process_variable_nodes(process_check_nodes(d, a), a)
         IN  IF check_llrs(hm, OutputHard(d2))
             THEN [dec |-> d2,
                   res |-> [ok |-> TRUE, codeword |-> hard_decisions(OutputHard(d2)),
                            iterations |-> iteration]]
             ELSE FloodingIterate(d2, hm, a, iteration + 1, max_iterations)

\* The hard decisions decode takes on the raw input LLRs.
RawHard(raw) == Collect([v \in 1..Len(raw) |-> input_llrs_hard_decision(raw[v])])

\* FloodingDecode without the "no bit errors" case: it always initializes and
\* iterates.
FloodingDecodeNoFastPath(d, hm, a, raw, max_iterations) ==
    FloodingIterate(initialize(d, hm, raw), hm, a, 1, max_iterations)

\* flooding::Decoder::decode: the decoder after the call and the result.
FloodingDecode(d, hm, a, raw, max_iterations) ==
    IF check_llrs(hm, RawHard(raw))
    THEN [dec |-> d,
          res |-> [ok |-> TRUE, codeword |-> hard_decisions(RawHard(raw)), iterations |-> 0]]
    ELSE FloodingIterate(initialize(d, hm, raw), hm, a, 1, max_iterations)

\* ---------------------------------------------------------- layered decoder

\* horizontal_layered::Decoder::new
LayeredNew(hm) ==
    [llrs           |-> Collect([c \in 1..num_cols(hm) |-> 0]),
     check_messages |-> SentMessagesFromIter(Collect([r \in 1..num_rows(hm) |-> iter_row(hm, r)]))]

\* llr_to_var_llr and var_llr_to_llr of the 8-bit arithmetics: the posterior
\* keeps the quantized LLR, and is clipped back to the LLR range.
llr_to_var_llr(llr) == llr

var_llr_to_llr(x) == clip(x)

\* update_check_messages_and_vars for one check row: the extrinsic input of
\* each edge is the posterior minus the message stored on the edge; the new
\* check messages follow the rule of send_check_messages; they are stored
\* and added back to the posteriors.
update_check_messages_and_vars(a, messages, post) ==
    LET ext == Collect([i \in 1..Len(messages) |->
                  [source |-> messages[i].dest,
                   value  |-> clip(post[messages[i].dest] - messages[i].value)]])
        new == send_check_messages(a, ext)
        idx(v) == CHOOSE i \in 1..Len(messages) : messages[i].dest = v
    IN  [messages |-> Collect([i \in 1..Len(messages) |->
                          [dest |-> messages[i].dest, value |-> new[i].value]]),
         llrs     |-> Collect([v \in 1..Len(post) |->
                          IF \E i \in 1..Len(messages) : messages[i].dest = v
                          THEN ext[idx(v)].value + new[idx(v)].value
                          ELSE post[v]])]

\* horizontal_layered::Decoder::initialize
LayeredInitialize(d, raw) ==
    [llrs           |-> Collect([v \in 1..Len(raw) |->
                                    llr_to_var_llr(input_llr_quantize(raw[v]))]),
     check_messages |-> Collect([r \in 1..Len(d.check_messages) |->
                           Collect([i \in 1..Len(d.check_messages[r]) |->
                               [dest |-> d.check_messages[r][i].dest, value |-> 0]])])]

RECURSIVE LayeredRowsFrom(_, _, _)
LayeredRowsFrom(d, a, r) ==
    IF r > Len(d.check_messages) THEN d
    ELSE LET u == update_check_messages_and_vars(a, d.check_messages[r], d.llrs)
         IN  LayeredRowsFrom([llrs |-> u.llrs,
                              check_messages |-> [d.check_messages EXCEPT ![r] = u.messages]],
                             a, r + 1)

\* horizontal_layered::Decoder::process_check_nodes
LayeredProcessCheckNodes(d, a) == LayeredRowsFrom(d, a, 1)

LayeredHard(d) == Collect([v \in 1..Len(d.llrs) |-> llr_hard_decision(var_llr_to_llr(d.llrs[v]))])

RECURSIVE LayeredIterate(_, _, _, _, _)
LayeredIterate(d, hm, a, iteration, max_iterations) ==
    IF iteration > max_iterations
    THEN [dec |-> d,
          res |-> [ok |-> FALSE, codeword |-> hard_decisions(LayeredHard(d)),
                   iterations |-> max_iterations]]
    ELSE LET d2 == LayeredProcessCheckNodes(d, a)
         IN  IF check_llrs(hm, LayeredHard(d2))
             THEN [dec |-> d2,
                   res |-> [ok |-> TRUE, codeword |-> hard_decisions(LayeredHard(d2)),
                            iterations |-> iteration]]
             ELSE LayeredIterate(d2, hm, a, iteration + 1, max_iterations)

\* horizontal_layered::Decoder::decode
LayeredDecode(d, hm, a, raw, max_iterations) ==
    IF check_llrs(hm, RawHard(raw))
    THEN [dec |-> d,
          res |-> [ok |-> TRUE, codeword |-> hard_decisions(RawHard(raw)), iterations |-> 0]]
    ELSE LayeredIterate(LayeredInitialize(d, raw), hm, a, 1, max_iterations)

\* ------------------------------------------------- decoder specification

\* The channel LLRs offered to decode, in units of 1/32: 1 and -1 quantize
\* to 0 and 48 to 12.
InputLlrValues == {-48, 1, 48}

\* The arithmetics the decoder is built with: Minstarapproxi8 and
\* Minstarapproxi8JonesPartialHardLimitDeg1Clip.
Arithmetics ==
    { [jones |-> FALSE, phl |-> FALSE, deg1 |-> FALSE],
      [jones |-> TRUE,  phl |-> TRUE,  deg1 |-> TRUE] }

NoCall == [llrs |-> <<>>, max_iterations |-> 0]

NoResult == [ok |-> TRUE, codeword |-> <<>>, iterations |-> 0]

\* No function is followed on its own.
NoUnit ==
    /\ unit = [fn |-> "none"]
    /\ input = <<>>
    /\ output = <<>>

\* No BER test has been constructed.
NoBerTest ==
    /\ test = [geometry |-> "ok", max_frame_errors |-> 0, bch_max_errors |-> 0,
               reporter |-> FALSE]
    /\ apc = "none"
    /\ point = 0
    /\ turn = 0
    /\ current_statistics = <<>>
    /\ join_error = 0
    /\ statistics = <<>>
    /\ reports = <<>>
    /\ ret = [kind |-> "none", error |-> 0]
    /\ wpc = <<>>
    /\ terminate = <<>>
    /\ frames = <<>>
    /\ results = <<>>
    /\ signalled = <<>>
    /\ sent_after = <<>>
    /\ received_sentinel = 0

DecoderInit ==
    /\ NoBerTest
    /\ NoUnit
    /\ schedule \in {"flooding", "layered"}
    /\ arithmetic \in Arithmetics
    /\ h \in Matrices
    /\ flooding = FloodingNew(h)
    /\ layered = LayeredNew(h)
    /\ call = NoCall
    /\ result = NoResult
    /\ ncalls = 0

\* A call of flooding::Decoder::decode on the instance.
DecodeFlooding ==
    /\ schedule = "flooding"
    /\ ncalls < MaxCalls
    /\ \E raw \in [1..num_cols(h) -> InputLlrValues], max_iterations \in 0..MaxIter :
          LET r == FloodingDecode(flooding, h, arithmetic, raw, max_iterations)
          IN  /\ flooding' = r.dec
              /\ result' = r.res
              /\ call' = [llrs |-> raw, max_iterations |-> max_iterations]
    /\ ncalls' = ncalls + 1
    /\ UNCHANGED <<schedule, arithmetic, h, layered>>
    /\ UNCHANGED <<berVars, unitVars>>

\* A call of horizontal_layered::Decoder::decode on the instance.
DecodeLayered ==
    /\ schedule = "layered"
    /\ ncalls < MaxCalls
    /\ \E raw \in [1..num_cols(h) -> InputLlrValues], max_iterations \in 0..MaxIter :
          LET r == LayeredDecode(layered, h, arithmetic, raw, max_iterations)
          IN  /\ layered' = r.dec
              /\ result' = r.res
              /\ call' = [llrs |-> raw, max_iterations |-> max_iterations]
    /\ ncalls' = ncalls + 1
    /\ UNCHANGED <<schedule, arithmetic, h, flooding>>
    /\ UNCHANGED <<berVars, unitVars>>

DecoderNext == DecodeFlooding \/ DecodeLayered

SpecDecoder == DecoderInit /\ [][DecoderNext]_vars

\* ---------------------------------------------------------------- C1

\* The bits b[v] = (llr[v] <= 0) of a vector of raw LLRs.
BitsOf(raw) == Collect([v \in 1..Len(raw) |-> IF raw[v] <= 0 THEN 1 ELSE 0])

\* H * bits = 0 over GF(2), read off the rows of the matrix.
SatisfiesH(hm, bits) ==
    \A r \in 1..Len(hm.rows) :
        SumSeq(Collect([i \in 1..Len(hm.rows[r]) |-> bits[hm.rows[r][i]]])) % 2 = 0

\* C1: whenever the bits (llr <= 0) of the raw input LLRs of a decode call
\* satisfy every parity check, the call returns Ok with iterations = 0 and
\* exactly those bits as codeword, for both schedules, every arithmetic,
\* every max_iterations and whatever calls were made before on the instance.
C1_FastPath ==
    (ncalls > 0 /\ SatisfiesH(h, BitsOf(call.llrs)))
        => /\ result.ok
           /\ result.iterations = 0
           /\ result.codeword = BitsOf(call.llrs)

\* A fast-path call made on an instance that an earlier call has left with
\* posteriors and messages of its own, with a codeword that is not all zero.
C1_Witness ==
    /\ ncalls = 2
    /\ SatisfiesH(h, BitsOf(call.llrs))
    /\ \E v \in 1..Len(call.llrs) : call.llrs[v] <= 0
    /\ call.max_iterations > 0
    /\ \/ schedule = "flooding" /\ flooding # FloodingNew(h)
       \/ schedule = "layered" /\ layered # LayeredNew(h)
    /\ result.ok /\ result.iterations = 0

\* ---------------------------------------------------------------- C2

RECURSIVE FloodingAfter(_, _, _)
\* The flooding decoder after k more iterations, whatever the posteriors.
FloodingAfter(d, a, k) ==
    IF k = 0 THEN d
    ELSE FloodingAfter(process_variable_nodes(process_check_nodes(d, a), a), a, k - 1)

RECURSIVE LayeredAfter(_, _, _)
LayeredAfter(d, a, k) ==
    IF k = 0 THEN d ELSE LayeredAfter(LayeredProcessCheckNodes(d, a), a, k - 1)

\* The bits of the posteriors of the instance.
PosteriorBits(sched, fl, ly) ==
    IF sched = "flooding"
    THEN Collect([v \in 1..Len(fl.output_llrs) |-> IF fl.output_llrs[v] <= 0 THEN 1 ELSE 0])
    ELSE Collect([v \in 1..Len(ly.llrs) |-> IF clip(ly.llrs[v]) <= 0 THEN 1 ELSE 0])

RECURSIVE FirstGoodFrom(_, _, _, _, _, _, _)
\* The first iteration index from k on, up to max_iterations, such that the
\* posterior bits satisfy every check k iterations after the initialized
\* instance (fl for flooding, ly for layered); max_iterations + 1 when there
\* is none.
FirstGoodFrom(sched, hm, a, fl, ly, k, max_iterations) ==
    IF k > max_iterations THEN k
    ELSE LET fl1 == IF sched = "flooding" THEN FloodingAfter(fl, a, 1) ELSE fl
             ly1 == IF sched = "layered" THEN LayeredAfter(ly, a, 1) ELSE ly
         IN  IF SatisfiesH(hm, PosteriorBits(sched, fl1, ly1)) THEN k
             ELSE FirstGoodFrom(sched, hm, a, fl1, ly1, k + 1, max_iterations)

\* What C2 says of one call c made on the instance (fl, ly), which returned
\* res.
C2_Holds(sched, hm, a, fl, ly, c, res) ==
    LET fl0 == initialize(fl, hm, c.llrs)
        ly0 == LayeredInitialize(ly, c.llrs)
        first == FirstGoodFrom(sched, hm, a, fl0, ly0, 1, c.max_iterations)
    IN  IF first <= c.max_iterations
        THEN /\ res.ok
             /\ res.iterations = first
        ELSE /\ ~res.ok
             /\ res.iterations = c.max_iterations

\* C2: a decode call whose raw input bits violate some parity check returns
\* Ok with iterations = k exactly when k is the first iteration of
\* 1..max_iterations after which the posterior bits satisfy every check;
\* it returns Err with iterations = max_iterations exactly when there is no
\* such iteration.
C2_FirstSuccessOrExhaustion ==
    [][ \A c \in {call'}, res \in {result'} :
          (ncalls' = ncalls + 1 /\ ~SatisfiesH(h, BitsOf(c.llrs)))
             => C2_Holds(schedule, h, arithmetic, flooding, layered, c, res) ]_vars

\* A call that succeeds at its second iteration (the first left a parity
\* check violated) made on an instance that was used before.
C2_Witness ==
    /\ ncalls = 2
    /\ ~SatisfiesH(h, BitsOf(call.llrs))
    /\ result.ok
    /\ result.iterations = 2

\* ---------------------------------------------------------------- C3

\* C3: decode returns Ok only with a codeword that satisfies every parity
\* check, and Err only with a codeword that is the hard decision on the
\* posteriors the call ends with and that violates at least one parity
\* check, for every max_iterations >= 0 and every prior history.
C3_OkValidErrInvalid ==
    ncalls > 0
        => /\ result.ok => SatisfiesH(h, result.codeword)
           /\ ~result.ok
                => /\ result.codeword = PosteriorBits(schedule, flooding, layered)
                   /\ ~SatisfiesH(h, result.codeword)

\* ---------------------------------------------------------------- C4

\* The result of the same call on a freshly constructed decoder.
FreshResult(sched, hm, a, c) ==
    IF sched = "flooding"
    THEN FloodingDecode(FloodingNew(hm), hm, a, c.llrs, c.max_iterations).res
    ELSE LayeredDecode(LayeredNew(hm), hm, a, c.llrs, c.max_iterations).res

\* C4: every decode call returns exactly what the same call returns on a
\* freshly constructed decoder (Ok or Err, codeword, iterations), whatever
\* calls were made before on the instance, for both schedules and every
\* max_iterations >= 0.
C4_PureFunction ==
    ncalls > 0 => result = FreshResult(schedule, h, arithmetic, call)

\* ------------------------------------------------------------ BER harness

Workers == 1..NumWorkers

\* The puncturer and interleaver a test is built with, for a codeword of n_cw
\* bits: pattern <<>> stands for no puncturer, columns 0 for no interleaver.
Geometries ==
    { [n_cw |-> 6, pattern |-> <<TRUE, TRUE, FALSE>>, columns |-> 2],
      [n_cw |-> 6, pattern |-> <<TRUE, TRUE, TRUE, FALSE>>, columns |-> 0],
      [n_cw |-> 6, pattern |-> <<>>, columns |-> 4] }

\* Puncturer::new: num_trues of the pattern.
num_trues(pattern) == Cardinality({i \in 1..Len(pattern) : pattern[i]})

\* Puncturer::puncture: the length of the punctured codeword, or -1 for
\* Err(CodewordSizeNotDivisible).
puncture(pattern, codeword_len) ==
    IF codeword_len % Len(pattern) # 0 THEN -1
    ELSE (codeword_len \div Len(pattern)) * num_trues(pattern)

\* Puncturer::depuncture: the length of the depunctured LLRs, or -1 for Err.
depuncture(pattern, llrs_len) ==
    IF llrs_len % num_trues(pattern) # 0 THEN -1
    ELSE Len(pattern) * (llrs_len \div num_trues(pattern))

\* Interleaver::interleave and deinterleave: the assert_eq! on the length.
interleave_asserts(columns, len) == len % columns = 0

\* Worker::simulate up to the decoder: "ok" when the frame reaches the
\* decoder, "err" when puncture or depuncture returns Err (the ? operator),
\* "panic" when an interleaver assertion fails.
simulate(g) ==
    LET transmitted == IF g.pattern = <<>> THEN g.n_cw ELSE puncture(g.pattern, g.n_cw)
    IN  IF transmitted < 0 THEN "err"
        ELSE IF g.columns # 0 /\ ~interleave_asserts(g.columns, transmitted) THEN "panic"
        ELSE IF g.pattern # <<>> /\ depuncture(g.pattern, transmitted) < 0 THEN "err"
        ELSE "ok"

\* What the decoder and the comparison with the message can give for one
\* frame: bit errors in the systematic part, success of decode, iterations.
DecodeOutcomes ==
    { [bit_errors |-> 0, success |-> TRUE,  iterations |-> 1],
      [bit_errors |-> 1, success |-> FALSE, iterations |-> 2],
      [bit_errors |-> 2, success |-> TRUE,  iterations |-> 2] }

\* A WorkerResultOk whose false_decode is the success of the decoder alone.
WorkerResultOkFalseDecodeOnSuccess(o) ==
    [bit_errors   |-> o.bit_errors,
     frame_error  |-> o.bit_errors > 0,
     false_decode |-> o.success,
     iterations   |-> o.iterations]

\* The WorkerResultOk built at the end of simulate.
WorkerResultOk(o) ==
    [bit_errors   |-> o.bit_errors,
     frame_error  |-> o.bit_errors > 0,
     false_decode |-> o.bit_errors > 0 /\ o.success,
     iterations   |-> o.iterations]

NoFrame == [bit_errors |-> 0, frame_error |-> FALSE, false_decode |-> FALSE, iterations |-> 0]

\* CurrentCodeStatistics::new
CurrentCodeStatisticsNew == [bit_errors |-> 0, frame_errors |-> 0, correct_iterations |-> 0]

\* CurrentStatistics::new: has_bch FALSE stands for bch = None.
CurrentStatisticsNew(has_bch) ==
    [num_frames |-> 0, false_decodes |-> 0, total_iterations |-> 0,
     ldpc |-> CurrentCodeStatisticsNew, has_bch |-> has_bch,
     bch |-> CurrentCodeStatisticsNew]

\* errors_for_termination reading the LDPC counter whether or not there is a
\* BCH counter.
errors_for_termination_ldpc(cs) == cs.ldpc.frame_errors

\* CurrentStatistics::errors_for_termination
errors_for_termination(cs) ==
    IF cs.has_bch THEN cs.bch.frame_errors ELSE cs.ldpc.frame_errors

\* The Ok(result) arm of the aggregation loop of do_run.
aggregate(cs, r, bch_max_errors) ==
    [num_frames       |-> cs.num_frames + 1,
     false_decodes    |-> cs.false_decodes + (IF r.false_decode THEN 1 ELSE 0),
     total_iterations |-> cs.total_iterations + r.iterations,
     ldpc |-> [bit_errors   |-> cs.ldpc.bit_errors + r.bit_errors,
               frame_errors |-> cs.ldpc.frame_errors + (IF r.frame_error THEN 1 ELSE 0),
               correct_iterations |->
                   cs.ldpc.correct_iterations + (IF r.frame_error THEN 0 ELSE r.iterations)],
     has_bch |-> cs.has_bch,
     bch |-> IF ~cs.has_bch THEN cs.bch
             ELSE IF r.bit_errors > bch_max_errors
             THEN [cs.bch EXCEPT !.bit_errors = @ + r.bit_errors, !.frame_errors = @ + 1]
             ELSE [cs.bch EXCEPT !.correct_iterations = @ + r.iterations]]

\* Statistics::from_current, without the times and the ratios.
StatisticsFromCurrent(cs, ebn0) ==
    [ebn0 |-> ebn0, num_frames |-> cs.num_frames, false_decodes |-> cs.false_decodes,
     total_iterations |-> cs.total_iterations, ldpc |-> cs.ldpc,
     has_bch |-> cs.has_bch, bch |-> cs.bch]

\* report!: the report sent when the macro sends one.
ReportStatistics(ebn0) == [kind |-> "Statistics", ebn0 |-> ebn0]

ReportFinished == [kind |-> "Finished", ebn0 |-> 0]

\* The reports sent so far for an Eb/N0.
ReportsOf(ebn0) == {i \in 1..Len(reports) : reports[i].ebn0 = ebn0}

Exited(state) == state \in {"ok", "err", "panic"}

\* The receiving end of the results channel lives in do_run until the loop
\* body ends, after the joins: workers still running find it dropped only
\* when do_run has panicked.
ResultsRxAlive == apc # "panicked"

\* The sending end of a running worker's terminate channel lives in the
\* workers vector until that worker has been joined.
TerminateTxAlive == apc # "panicked"

\* The values of max_frame_errors and bch_max_errors a test is built with.
MaxFrameErrorsValues == {0, 1, 2}

BchMaxErrorsValues == {0, 1}

\* No decoder instance is followed while the BER test runs.
NoDecoder ==
    /\ schedule = "none"
    /\ arithmetic = [jones |-> FALSE, phl |-> FALSE, deg1 |-> FALSE]
    /\ h = SparseNew(0, 0)
    /\ flooding = FloodingNew(h)
    /\ layered = LayeredNew(h)
    /\ call = NoCall
    /\ result = NoResult
    /\ ncalls = 0

\* BerTest::new followed by the call of run.
BerInit ==
    /\ NoDecoder
    /\ NoUnit
    /\ test \in [geometry : Geometries, max_frame_errors : MaxFrameErrorsValues,
                 bch_max_errors : BchMaxErrorsValues, reporter : BOOLEAN]
    /\ apc = "spawn"
    /\ point = 1
    /\ turn = 0
    /\ current_statistics = CurrentStatisticsNew(FALSE)
    /\ join_error = 0
    /\ statistics = <<>>
    /\ reports = <<>>
    /\ ret = [kind |-> "none", error |-> 0]
    /\ wpc = [w \in Workers |-> "none"]
    /\ terminate = [w \in Workers |-> 0]
    /\ frames = [w \in Workers |-> 0]
    /\ results = <<>>
    /\ signalled = [w \in Workers |-> FALSE]
    /\ sent_after = [w \in Workers |-> 0]
    /\ received_sentinel = 0

\* AggSpawn with one results channel for all Eb/N0: the messages left in it
\* stay.
AggSpawnSharedChannel ==
    /\ apc = "spawn"
    /\ wpc' = [w \in Workers |-> "poll"]
    /\ terminate' = [w \in Workers |-> 0]
    /\ frames' = [w \in Workers |-> 0]
    /\ signalled' = [w \in Workers |-> FALSE]
    /\ sent_after' = [w \in Workers |-> 0]
    /\ received_sentinel' = 0
    /\ current_statistics' = CurrentStatisticsNew(test.bch_max_errors > 0)
    /\ apc' = IF 0 < test.max_frame_errors THEN "recv" ELSE "close"
    /\ UNCHANGED <<test, point, turn, join_error, statistics, reports, ret, results>>
    /\ UNCHANGED <<decoderVars, unitVars>>

\* do_run, start of the loop body for one Eb/N0: a new results channel, the
\* workers spawned, new statistics and the first test of the while
\* condition.
AggSpawn ==
    /\ apc = "spawn"
    /\ wpc' = [w \in Workers |-> "poll"]
    /\ terminate' = [w \in Workers |-> 0]
    /\ frames' = [w \in Workers |-> 0]
    /\ results' = <<>>
    /\ signalled' = [w \in Workers |-> FALSE]
    /\ sent_after' = [w \in Workers |-> 0]
    /\ received_sentinel' = 0
    /\ current_statistics' = CurrentStatisticsNew(test.bch_max_errors > 0)
    /\ apc' = IF 0 < test.max_frame_errors THEN "recv" ELSE "close"
    /\ UNCHANGED <<test, point, turn, join_error, statistics, reports, ret>>
    /\ UNCHANGED <<decoderVars, unitVars>>

\* do_run, one pass of the while loop: results_rx.recv() returns the oldest
\* message; Ok(result) is aggregated, report! may send a periodic report
\* (when the interval has elapsed) and the while condition is tested again;
\* Err(()) breaks out of the loop.
AggRecv ==
    /\ apc = "recv"
    /\ results # <<>>
    /\ LET msg == Head(results)
       IN  IF msg.ok
           THEN LET cs == aggregate(current_statistics, msg.result, test.bch_max_errors)
                IN  /\ current_statistics' = cs
                    /\ \E elapsed \in (IF test.reporter /\ Cardinality(ReportsOf(point)) < MaxPeriodic
                                     THEN BOOLEAN ELSE {FALSE}) :
                          reports' = IF elapsed
                                     THEN Append(reports, ReportStatistics(point))
                                     ELSE reports
                    /\ apc' = IF errors_for_termination(cs) < test.max_frame_errors
                              THEN "recv" ELSE "close"
                    /\ UNCHANGED received_sentinel
           ELSE /\ received_sentinel' = msg.worker
                /\ apc' = "close"
                /\ UNCHANGED <<current_statistics, reports>>
    /\ results' = Tail(results)
    /\ UNCHANGED <<test, point, turn, join_error, statistics, ret, wpc, terminate,
                   frames, signalled, sent_after>>
    /\ UNCHANGED <<decoderVars, unitVars>>

\* do_run, after the while loop: report! with final = true.
AggClose ==
    /\ apc = "close"
    /\ reports' = IF test.reporter THEN Append(reports, ReportStatistics(point))
                  ELSE reports
    /\ apc' = "signal"
    /\ turn' = 1
    /\ UNCHANGED <<test, point, current_statistics, join_error, statistics, ret, wpc,
                   terminate, frames, results, signalled, sent_after, received_sentinel>>
    /\ UNCHANGED <<decoderVars, unitVars>>

\* do_run, one pass of the terminate loop: terminate_tx.send(()) to the next
\* worker; the send fails, and is ignored, when the worker has gone and
\* dropped its receiver.
AggSignal ==
    /\ apc = "signal"
    /\ terminate' = [terminate EXCEPT ![turn] = IF Exited(wpc[turn]) THEN @ ELSE 1]
    /\ signalled' = [signalled EXCEPT ![turn] = TRUE]
    /\ IF turn < NumWorkers
       THEN apc' = "signal" /\ turn' = turn + 1 /\ UNCHANGED join_error
       ELSE apc' = "join" /\ turn' = 1 /\ join_error' = 0
    /\ UNCHANGED <<test, point, current_statistics, statistics, reports, ret, wpc,
                   frames, results, sent_after, received_sentinel>>
    /\ UNCHANGED <<decoderVars, unitVars>>

\* AggJoin that does not wait for the worker: the pair is taken out of the
\* vector and dropped while the worker may still run.
AggJoinDetached ==
    /\ apc = "join"
    /\ IF wpc[turn] = "panic"
       THEN /\ apc' = "panicked"
            /\ UNCHANGED <<turn, join_error, statistics, point>>
       ELSE LET e == IF wpc[turn] = "err" THEN turn ELSE join_error
            IN  /\ join_error' = e
                /\ IF turn < NumWorkers
                   THEN apc' = "join" /\ turn' = turn + 1 /\ UNCHANGED <<statistics, point>>
                   ELSE IF e # 0
                   THEN apc' = "finish" /\ UNCHANGED <<turn, statistics, point>>
                   ELSE /\ statistics' =
                              Append(statistics, StatisticsFromCurrent(current_statistics, point))
                        /\ UNCHANGED turn
                        /\ IF point < NumPoints
                           THEN apc' = "spawn" /\ point' = point + 1
                           ELSE apc' = "finish" /\ UNCHANGED point
    /\ UNCHANGED <<test, current_statistics, reports, ret, wpc, terminate, frames,
                   results, signalled, sent_after, received_sentinel>>
    /\ UNCHANGED <<decoderVars, unitVars>>

\* AggJoin storing a worker's Err(e) only while join_error is None: the
\* first error met in the join loop is kept.
AggJoinKeepsFirst ==
    /\ apc = "join"
    /\ Exited(wpc[turn])
    /\ IF wpc[turn] = "panic"
       THEN /\ apc' = "panicked"
            /\ UNCHANGED <<turn, join_error, statistics, point>>
       ELSE LET e == IF wpc[turn] = "err" /\ join_error = 0 THEN turn ELSE join_error
            IN  /\ join_error' = e
                /\ IF turn < NumWorkers
                   THEN apc' = "join" /\ turn' = turn + 1 /\ UNCHANGED <<statistics, point>>
                   ELSE IF e # 0
                   THEN apc' = "finish" /\ UNCHANGED <<turn, statistics, point>>
                   ELSE /\ statistics' =
                              Append(statistics, StatisticsFromCurrent(current_statistics, point))
                        /\ UNCHANGED turn
                        /\ IF point < NumPoints
                           THEN apc' = "spawn" /\ point' = point + 1
                           ELSE apc' = "finish" /\ UNCHANGED point
    /\ UNCHANGED <<test, current_statistics, reports, ret, wpc, terminate, frames,
                   results, signalled, sent_after, received_sentinel>>
    /\ UNCHANGED <<decoderVars, unitVars>>

\* AggJoin with the result of join() dropped: a worker's Err(e) is not
\* stored in join_error.
AggJoinDropsError ==
    /\ apc = "join"
    /\ Exited(wpc[turn])
    /\ IF wpc[turn] = "panic"
       THEN /\ apc' = "panicked"
            /\ UNCHANGED <<turn, join_error, statistics, point>>
       ELSE /\ UNCHANGED join_error
            /\ IF turn < NumWorkers
               THEN apc' = "join" /\ turn' = turn + 1 /\ UNCHANGED <<statistics, point>>
               ELSE /\ statistics' =
                          Append(statistics, StatisticsFromCurrent(current_statistics, point))
                    /\ UNCHANGED turn
                    /\ IF point < NumPoints
                       THEN apc' = "spawn" /\ point' = point + 1
                       ELSE apc' = "finish" /\ UNCHANGED point
    /\ UNCHANGED <<test, current_statistics, reports, ret, wpc, terminate, frames,
                   results, signalled, sent_after, received_sentinel>>
    /\ UNCHANGED <<decoderVars, unitVars>>

\* do_run, one pass of the join loop and, after the last pass, the end of
\* the loop body: handle.join().unwrap() waits for the worker to have gone
\* and panics when the worker panicked; an Err(e) of the worker is stored in
\* join_error. After the last join, Some(e) makes do_run return Err(e);
\* otherwise the statistics of the Eb/N0 are pushed and the next Eb/N0
\* begins.
AggJoin ==
    /\ apc = "join"
    /\ Exited(wpc[turn])
    /\ IF wpc[turn] = "panic"
       THEN /\ apc' = "panicked"
            /\ UNCHANGED <<turn, join_error, statistics, point>>
       ELSE LET e == IF wpc[turn] = "err" THEN turn ELSE join_error
            IN  /\ join_error' = e
                /\ IF turn < NumWorkers
                   THEN apc' = "join" /\ turn' = turn + 1 /\ UNCHANGED <<statistics, point>>
                   ELSE IF e # 0
                   THEN apc' = "finish" /\ UNCHANGED <<turn, statistics, point>>
                   ELSE /\ statistics' =
                              Append(statistics, StatisticsFromCurrent(current_statistics, point))
                        /\ UNCHANGED turn
                        /\ IF point < NumPoints
                           THEN apc' = "spawn" /\ point' = point + 1
                           ELSE apc' = "finish" /\ UNCHANGED point
    /\ UNCHANGED <<test, current_statistics, reports, ret, wpc, terminate, frames,
                   results, signalled, sent_after, received_sentinel>>
    /\ UNCHANGED <<decoderVars, unitVars>>

\* AggFinish with "ret?" ahead of the send: Report::Finished is sent on the
\* Ok path only.
AggFinishOkOnly ==
    /\ apc = "finish"
    /\ reports' = IF test.reporter /\ join_error = 0 THEN Append(reports, ReportFinished)
                  ELSE reports
    /\ ret' = IF join_error # 0 THEN [kind |-> "Err", error |-> join_error]
              ELSE [kind |-> "Ok", error |-> 0]
    /\ apc' = "done"
    /\ UNCHANGED <<test, point, turn, current_statistics, join_error, statistics, wpc,
                   terminate, frames, results, signalled, sent_after, received_sentinel>>
    /\ UNCHANGED <<decoderVars, unitVars>>

\* run, after do_run has returned: Report::Finished is sent when there is a
\* reporter, then the error or the statistics are returned.
AggFinish ==
    /\ apc = "finish"
    /\ reports' = IF test.reporter THEN Append(reports, ReportFinished) ELSE reports
    /\ ret' = IF join_error # 0 THEN [kind |-> "Err", error |-> join_error]
              ELSE [kind |-> "Ok", error |-> 0]
    /\ apc' = "done"
    /\ UNCHANGED <<test, point, turn, current_statistics, join_error, statistics, wpc,
                   terminate, frames, results, signalled, sent_after, received_sentinel>>
    /\ UNCHANGED <<decoderVars, unitVars>>

\* WorkerPoll with the Ok(()) arm falling through like the Empty arm: the
\* signal is consumed and the worker goes on with the next frame.
WorkerPollFallsThrough(w) ==
    /\ wpc[w] = "poll"
    /\ ~TerminateTxAlive \/ frames[w] < MaxFrames
    /\ IF terminate[w] = 0 /\ ~TerminateTxAlive
       THEN /\ wpc' = [wpc EXCEPT ![w] = "panic"]
            /\ UNCHANGED <<terminate, frames>>
       ELSE /\ wpc' = [wpc EXCEPT ![w] = "sim"]
            /\ frames' = [frames EXCEPT ![w] = @ + 1]
            /\ terminate' = [terminate EXCEPT ![w] = 0]
    /\ UNCHANGED <<test, apc, point, turn, current_statistics, join_error, statistics,
                   reports, ret, results, signalled, sent_after, received_sentinel>>
    /\ UNCHANGED <<decoderVars, unitVars>>

\* Worker::work, top of the loop: terminate_rx.try_recv(). Ok(()) makes the
\* worker return Ok(()), Disconnected makes it panic, Empty lets it start
\* the simulation of a frame.
WorkerPoll(w) ==
    /\ wpc[w] = "poll"
    /\ terminate[w] > 0 \/ ~TerminateTxAlive \/ frames[w] < MaxFrames
    /\ IF terminate[w] > 0
       THEN /\ terminate' = [terminate EXCEPT ![w] = 0]
            /\ wpc' = [wpc EXCEPT ![w] = "ok"]
            /\ UNCHANGED frames
       ELSE IF ~TerminateTxAlive
       THEN /\ wpc' = [wpc EXCEPT ![w] = "panic"]
            /\ UNCHANGED <<terminate, frames>>
       ELSE /\ wpc' = [wpc EXCEPT ![w] = "sim"]
            /\ frames' = [frames EXCEPT ![w] = @ + 1]
            /\ UNCHANGED terminate
    /\ UNCHANGED <<test, apc, point, turn, current_statistics, join_error, statistics,
                   reports, ret, results, signalled, sent_after, received_sentinel>>
    /\ UNCHANGED <<decoderVars, unitVars>>

\* The message a frame puts on the results channel and the state the worker
\* goes to: Ok(result) and back to the top of the loop, or Err(()) and
\* return of the error. A sentinel is tagged with the worker it comes from.
FrameMessages(w) ==
    IF simulate(test.geometry) = "ok"
    THEN { [next |-> "poll",
            msg |-> [worker |-> 0, ok |-> TRUE, result |-> WorkerResultOk(o)]] :
           o \in DecodeOutcomes }
    ELSE { [next |-> "err", msg |-> [worker |-> w, ok |-> FALSE, result |-> NoFrame]] }

\* Worker::work, rest of the loop body: the frame is simulated and its
\* result sent with results_tx.send(..).unwrap(); the worker panics when an
\* interleaver assertion fails in simulate or when the receiver has gone.
WorkerFrame(w) ==
    /\ wpc[w] = "sim"
    /\ IF simulate(test.geometry) = "panic" \/ ~ResultsRxAlive
       THEN /\ wpc' = [wpc EXCEPT ![w] = "panic"]
            /\ UNCHANGED <<results, sent_after>>
       ELSE \E f \in FrameMessages(w) :
               /\ results' = Append(results, f.msg)
               /\ wpc' = [wpc EXCEPT ![w] = f.next]
               /\ sent_after' = [sent_after EXCEPT ![w] = IF signalled[w] THEN @ + 1 ELSE @]
    /\ UNCHANGED <<test, apc, point, turn, current_statistics, join_error, statistics,
                   reports, ret, terminate, frames, signalled, received_sentinel>>
    /\ UNCHANGED <<decoderVars, unitVars>>

BerNext ==
    \/ AggSpawn
    \/ AggRecv
    \/ AggClose
    \/ AggSignal
    \/ AggJoin
    \/ AggFinish
    \/ \E w \in Workers : WorkerPoll(w)
    \/ \E w \in Workers : WorkerFrame(w)

SpecBer == BerInit /\ [][BerNext]_vars

\* The threads are scheduled: a step of the aggregator or of a worker that
\* stays possible is eventually taken.
FairSpecBer ==
    /\ SpecBer
    /\ WF_vars(AggSpawn \/ AggRecv \/ AggClose \/ AggSignal \/ AggJoin \/ AggFinish)
    /\ \A w \in Workers : WF_vars(WorkerPoll(w)) /\ WF_vars(WorkerFrame(w))

\* ---------------------------------------------------------------- C5

\* C5: once the aggregator has sent the terminate signal to a worker of an
\* Eb/N0, that worker sends at most one further result (that of the frame it
\* was simulating), starts no other frame and exits; every worker of the
\* Eb/N0 eventually exits and the aggregator never stays blocked in the
\* terminate and join loops, under every interleaving of the threads.
C5_WorkersExitAfterSignal ==
    /\ [](\A w \in Workers : sent_after[w] <= 1)
    /\ [][\A w \in Workers :
            (signalled[w] /\ wpc[w] = "poll" /\ wpc'[w] # "poll") => Exited(wpc'[w])]_vars
    /\ (apc = "signal") ~> (\A w \in Workers : Exited(wpc[w]))
    /\ (apc \in {"signal", "join"}) ~> (apc \notin {"signal", "join"})

\* A worker was simulating a frame when it was signalled, sent that frame's
\* result, returned Ok, and all workers have been joined.
C5_Witness ==
    /\ apc \in {"spawn", "finish"}
    /\ \E w \in Workers : sent_after[w] = 1 /\ signalled[w] /\ wpc[w] = "ok"
    /\ \A w \in Workers : Exited(wpc[w])

\* ---------------------------------------------------------------- C6

\* No frame of the test fails: the geometry lets every frame reach the
\* decoder.
NoWorkerFailure == simulate(test.geometry) = "ok"

\* The frame-error counter that governs termination, read off a statistics
\* record: BCH when bch_max_errors > 0, else LDPC.
Governing(st) ==
    IF test.bch_max_errors > 0 THEN st.bch.frame_errors ELSE st.ldpc.frame_errors

\* C6: absent worker failure, for each Eb/N0 the aggregator receives and
\* aggregates results only while the governing frame-error counter (BCH
\* when bch_max_errors > 0, else LDPC) is below max_frame_errors, and no
\* more once it has reached it: the counter never exceeds max_frame_errors,
\* it equals max_frame_errors from the end of the loop on and in the
\* statistics pushed for the Eb/N0.
C6_StopsAtBudget ==
    /\ [](NoWorkerFailure =>
            /\ Governing(current_statistics) <= test.max_frame_errors
            /\ apc = "recv" => Governing(current_statistics) < test.max_frame_errors
            /\ apc \in {"close", "signal", "join"}
                  => Governing(current_statistics) = test.max_frame_errors
            /\ \A i \in 1..Len(statistics) :
                  Governing(statistics[i]) = test.max_frame_errors)
    /\ [][(NoWorkerFailure /\ current_statistics' # current_statistics)
            => \/ apc = "spawn"
               \/ apc = "recv" /\ Governing(current_statistics) < test.max_frame_errors]_vars

\* An Eb/N0 closed with BCH governing: three frames were aggregated, the
\* BCH counter reached the budget of 2 and the LDPC counter is above it.
C6_Witness ==
    /\ NoWorkerFailure
    /\ test.max_frame_errors = 2
    /\ test.bch_max_errors > 0
    /\ Len(statistics) >= 1
    /\ statistics[1].num_frames > 2
    /\ statistics[1].bch.frame_errors = 2
    /\ statistics[1].ldpc.frame_errors > 2

\* ---------------------------------------------------------------- C7

\* The puncturing pattern does not divide the codeword length, or the
\* interleaver columns do not divide the length of the buffer interleaved.
InvalidGeometry ==
    LET g == test.geometry
        divisible == g.pattern = <<>> \/ g.n_cw % Len(g.pattern) = 0
        transmitted == IF g.pattern = <<>> THEN g.n_cw
                       ELSE (g.n_cw \div Len(g.pattern)) * num_trues(g.pattern)
    IN  \/ ~divisible
        \/ divisible /\ g.columns # 0 /\ transmitted % g.columns # 0

\* C7: with an invalid geometry (puncturing pattern length not dividing the
\* codeword length, or interleaver columns not dividing the buffer length)
\* no thread of the run panics, and when run returns it returns Err.
C7_InvalidGeometryIsError ==
    InvalidGeometry
        => /\ apc # "panicked"
           /\ \A w \in Workers : wpc[w] # "panic"
           /\ apc = "done" => ret.kind = "Err"

\* ---------------------------------------------------------------- C8

Sentinel(w) == [worker |-> w, ok |-> FALSE, result |-> NoFrame]

SomeWorkerFailed == \E w \in Workers : wpc[w] = "err"

\* C8: a worker whose frame simulation returns an error puts the failure
\* sentinel on the results channel and exits; from then on no later Eb/N0
\* is started and run does not return Ok, and eventually every worker of
\* the Eb/N0 has been signalled and has exited, all have been joined and
\* run has returned Err.
C8_WorkerFailureEndsRun ==
    /\ [][\A w \in Workers :
            (wpc[w] = "sim" /\ wpc'[w] = "err") => results' = Append(results, Sentinel(w))]_vars
    /\ [][SomeWorkerFailed => (point' = point /\ apc' # "spawn" /\ ret'.kind # "Ok")]_vars
    /\ SomeWorkerFailed
          ~> (/\ ret.kind = "Err"
              /\ apc = "done"
              /\ \A w \in Workers : signalled[w] /\ Exited(wpc[w]))

\* Run has returned Err after worker 1 failed in the first Eb/N0 and the
\* aggregator received its sentinel; worker 2 was signalled before it
\* simulated a frame and returned Ok.
C8_Witness ==
    /\ ret.kind = "Err"
    /\ point = 1
    /\ test.max_frame_errors > 0
    /\ received_sentinel = 1
    /\ wpc[1] = "err"
    /\ wpc[2] = "ok"

\* ---------------------------------------------------------------- C9

\* The sentinels still on the results channel, oldest first.
QueuedSentinels == {i \in 1..Len(results) : ~results[i].ok}

\* The worker whose failure sentinel reached the aggregator's channel first
\* (0 when no worker has failed).
FirstFailure ==
    IF received_sentinel # 0 THEN received_sentinel
    ELSE IF QueuedSentinels = {} THEN 0
    ELSE results[CHOOSE i \in QueuedSentinels : \A j \in QueuedSentinels : i <= j].worker

\* C9 as stated: when run returns Err, no frame result that was in flight
\* is left unaggregated on the results channel, and the error returned is
\* that of the worker whose failure sentinel reached the aggregator first.
C9_FirstFailureAfterDraining ==
    ret.kind = "Err"
        => /\ \A i \in 1..Len(results) : ~results[i].ok
           /\ ret.error = FirstFailure

\* C9 amended: the aggregator aggregates every frame result it receives
\* ahead of a failure sentinel and receives nothing more once it has
\* received the sentinel; the error run returns is that of a worker of the
\* Eb/N0 that failed, namely the one joined last among those that failed,
\* whichever sentinel reached the aggregator first.
C9_LastJoinedFailure ==
    /\ [](ret.kind = "Err"
            => /\ ret.error \in Workers
               /\ wpc[ret.error] = "err"
               /\ \A w \in Workers : w > ret.error => wpc[w] # "err")
    /\ [][(apc = "recv" /\ results # <<>> /\ results' = Tail(results))
            => IF Head(results).ok
               THEN current_statistics'.num_frames = current_statistics.num_frames + 1
               ELSE apc' = "close" /\ received_sentinel' = Head(results).worker]_vars
    /\ [][received_sentinel # 0
            => /\ current_statistics' = current_statistics
               /\ Len(results') >= Len(results)
               /\ SubSeq(results', 1, Len(results)) = results]_vars

\* Both workers failed; the sentinel of worker 1 was received first, that
\* of worker 2 was left on the channel, and run returned the error of
\* worker 2.
C9_Witness ==
    /\ ret.kind = "Err"
    /\ received_sentinel = 1
    /\ ret.error = 2
    /\ results = <<Sentinel(2)>>

\* ---------------------------------------------------------------- C10

\* The Statistics reports come in the order of the Eb/N0 list.
ReportsOrdered ==
    \A i, j \in 1..Len(reports) :
        (i < j /\ reports[i].kind = "Statistics" /\ reports[j].kind = "Statistics")
            => reports[i].ebn0 <= reports[j].ebn0

\* Report::Finished is nowhere but in the last place.
FinishedOnlyLast ==
    \A i \in 1..Len(reports) : reports[i].kind = "Finished" => i = Len(reports)

\* C10: with a reporter, the reports sent are Statistics reports in the
\* order of the Eb/N0 list; while an Eb/N0 is open only its loop sends
\* (periodic) reports, the close of the Eb/N0 always sends one Statistics
\* report for it, and nothing is sent between the close and the next
\* Eb/N0; when run returns, Ok or Err, every Eb/N0 processed has at least
\* its closing report and one Finished report ends the sequence.
C10_ReportSequence ==
    /\ [](test.reporter
            => /\ ReportsOrdered
               /\ FinishedOnlyLast
               /\ \A i \in 1..Len(reports) :
                     reports[i].kind = "Statistics" => reports[i].ebn0 \in 1..point
               /\ apc # "done" => \A i \in 1..Len(reports) : reports[i].kind # "Finished"
               /\ ret.kind \in {"Ok", "Err"}
                     => /\ reports # <<>>
                        /\ reports[Len(reports)] = ReportFinished
                        /\ \A p \in 1..point : ReportsOf(p) # {})
    /\ [][(test.reporter /\ apc = "close" /\ apc' # "close")
            => reports' = Append(reports, ReportStatistics(point))]_vars
    /\ [][(test.reporter /\ apc = "finish" /\ apc' # "finish")
            => reports' = Append(reports, ReportFinished)]_vars
    /\ [][(test.reporter /\ apc = "recv")
            => reports' \in {reports, Append(reports, ReportStatistics(point))}]_vars
    /\ [][(test.reporter /\ apc \notin {"recv", "close", "finish"})
            => reports' = reports]_vars

\* Run returned Ok with a reporter: the first Eb/N0 has a periodic report
\* and its closing report, and Finished is last.
C10_Witness ==
    /\ test.reporter
    /\ ret.kind = "Ok"
    /\ Cardinality(ReportsOf(1)) = 2
    /\ reports[Len(reports)] = ReportFinished

\* ------------------------------------------------------ systematic encoder

\* SparseMatrix::iter_all: the (row, column) pairs of the ones.
iter_all(m) == {<<j, k>> \in (1..num_rows(m)) \X (1..num_cols(m)) : Contains(m, j, k)}

\* staircase::is_staircase: every one of the parity part (the last n columns)
\* is on the diagonal or just below it, and there are 2n-1 of them.
is_staircase(hm) ==
    LET n == num_rows(hm)
        m == num_cols(hm)
        parity == {e \in iter_all(hm) : e[2] > m - n}
    IN  /\ \A e \in parity :
              /\ ~(e[1] = 1 /\ e[2] # m - n + 1)
              /\ ~(e[1] # 1 /\ e[2] # m - n + e[1] - 1 /\ e[2] # m - n + e[1])
        /\ Cardinality(parity) = 2 * n - 1

\* Addition in GF(2).
Gf2Add(x, y) == (x + y) % 2

\* gauss_reduction, the loop "for u in j..m" of a row subtraction: row t of
\* array minus row j, on the columns from j on.
SubtractRow(array, t, j) ==
    [array EXCEPT ![t] =
        Collect([u \in 1..Len(array[t]) |->
                    IF u >= j THEN Gf2Add(array[t][u], array[j][u]) ELSE array[t][u]])]

\* gauss_reduction, "swap rows j and k": on the columns from j on.
SwapRows(array, j, k) ==
    [array EXCEPT
        ![j] = Collect([u \in 1..Len(array[j]) |-> IF u >= j THEN array[k][u] ELSE array[j][u]]),
        ![k] = Collect([u \in 1..Len(array[k]) |-> IF u >= j THEN array[j][u] ELSE array[k][u]])]

\* gauss_reduction, the zeros below (t from j+1 up to n) or above (t from 1
\* up to j-1) the pivot of column j: rows t..last.
RECURSIVE ClearColumn(_, _, _, _)
ClearColumn(array, j, t, last) ==
    IF t > last THEN array
    ELSE ClearColumn(IF array[t][j] # 0 THEN SubtractRow(array, t, j) ELSE array,
                     j, t + 1, last)

\* gauss_reduction, first loop from column j on: reduce to upper triangular
\* with ones on the diagonal; ok is FALSE for Err(NotInvertible).
RECURSIVE GaussForward(_, _)
GaussForward(array, j) ==
    LET n == Len(array)
        found == {k \in j..n : array[k][j] # 0}
    IN  IF j > n THEN [ok |-> TRUE, array |-> array]
        ELSE IF found = {} THEN [ok |-> FALSE, array |-> array]
        ELSE LET k == CHOOSE k \in found : \A k2 \in found : k <= k2
                 swapped == IF k # j THEN SwapRows(array, j, k) ELSE array
             IN  GaussForward(ClearColumn(swapped, j, j + 1, n), j + 1)

\* gauss_reduction, second loop from column j down: reduce to the identity.
RECURSIVE GaussBackward(_, _)
GaussBackward(array, j) ==
    IF j < 1 THEN array
    ELSE GaussBackward(ClearColumn(array, j, 1, j - 1), j - 1)

\* A gauss_reduction that stops after the first loop (upper triangular, not
\* the identity).
gauss_reduction_forward_only(array) == GaussForward(array, 1)

gauss_reduction(array) ==
    LET fwd == GaussForward(array, 1)
    IN  IF fwd.ok THEN [ok |-> TRUE, array |-> GaussBackward(fwd.array, Len(array))]
        ELSE fwd

\* Encoder::from_h: the staircase encoder keeps H0; the general one reduces
\* A = [H1 H0] and keeps the last m-n columns; ok is FALSE for
\* Err(SubmatrixNotInvertible).
from_h(hm) ==
    LET n == num_rows(hm)
        m == num_cols(hm)
    IN  IF is_staircase(hm)
        THEN [ok |-> TRUE, kind |-> "Staircase",
              gen |-> Collect([j \in 1..n |-> {k \in 1..(m - n) : Contains(hm, j, k)}])]
        ELSE LET a == Collect([j \in 1..n |->
                         Collect([t \in 1..m |->
                            IF t <= n
                            THEN (IF Contains(hm, j, t + (m - n)) THEN 1 ELSE 0)
                            ELSE (IF Contains(hm, j, t - n) THEN 1 ELSE 0)])])
                 red == gauss_reduction(a)
             IN  IF red.ok
                 THEN [ok |-> TRUE, kind |-> "DenseGenerator",
                       gen |-> Collect([j \in 1..n |-> SubSeq(red.array[j], n + 1, m)])]
                 ELSE [ok |-> FALSE, kind |-> "none", gen |-> <<>>]

\* Sum in GF(2) of the message bits at the positions ks.
RECURSIVE Gf2SumAt(_, _)
Gf2SumAt(message, ks) ==
    IF ks = {} THEN 0
    ELSE LET k == CHOOSE k \in ks : TRUE
         IN  Gf2Add(message[k], Gf2SumAt(message, ks \ {k}))

\* Encoder::encode, staircase case: "accumulate parity", a running sum.
RECURSIVE Accumulate(_, _)
Accumulate(parity, j) ==
    IF j > Len(parity) THEN parity
    ELSE Accumulate([parity EXCEPT ![j] = Gf2Add(@, parity[j - 1])], j + 1)

\* Encoder::encode with the parity left as the staircase generator gives it,
\* without the running sum.
EncodeNoAccumulate(enc, message) ==
    LET k == Len(message)
        parity == Collect([j \in 1..Len(enc.gen) |->
                     IF enc.kind = "Staircase"
                     THEN Gf2SumAt(message, enc.gen[j])
                     ELSE Gf2SumAt(message, {i \in 1..k : enc.gen[j][i] = 1})])
    IN  message \o parity

\* Encoder::encode: the message followed by the parity.
encode(enc, message) ==
    LET k == Len(message)
        initial == Collect([j \in 1..Len(enc.gen) |->
                      IF enc.kind = "Staircase"
                      THEN Gf2SumAt(message, enc.gen[j])
                      ELSE Gf2SumAt(message, {i \in 1..k : enc.gen[j][i] = 1})])
        parity == IF enc.kind = "Staircase" THEN Accumulate(initial, 2) ELSE initial
    IN  message \o parity

\* ------------------------------------------------------- Worker::simulate

\* Parity check matrices offered to BerTest::new: [1 1], a staircase code
\* (the repetition code of length 3), a code whose generator needs the
\* Gaussian reduction, and one whose last columns are not invertible.
CandidateMatrices ==
    { FromRows(2, <<<<1, 2>>>>),
      FromRows(3, <<<<1, 2>>, <<2, 3>>>>),
      FromRows(3, <<<<1, 2, 3>>, <<1, 3>>>>),
      FromRows(3, <<<<1, 2, 3>>, <<2, 3>>>>) }

\* Those for which BerTest::new returns Ok (Encoder::from_h(&h)?).
EncodableMatrices == {hm \in CandidateMatrices : from_h(hm).ok}

\* Worker::simulate, the comparison of the message with the decoded
\* codeword: bit errors over the first k positions.
bit_errors(message, decoded) ==
    Cardinality({i \in 1..Min(Len(message), Len(decoded)) : message[i] # decoded[i]})

\* BerTest::new and make_worker: the worker owns the encoder of h, a decoder
\* for h and max_iterations.
SimulateInit ==
    /\ NoBerTest
    /\ schedule \in {"flooding", "layered"}
    /\ arithmetic \in Arithmetics
    /\ h \in EncodableMatrices
    /\ flooding = FloodingNew(h)
    /\ layered = LayeredNew(h)
    /\ call = NoCall
    /\ result = NoResult
    /\ ncalls = 0
    /\ \E max_iterations \in 0..MaxIter :
          unit = [fn |-> "simulate", encoder |-> from_h(h),
                  k |-> num_cols(h) - num_rows(h), max_iterations |-> max_iterations]
    /\ input = <<>>
    /\ output = <<>>

\* Worker::simulate for one frame: a random message is encoded, the channel
\* and the demodulator give LLRs (any values: the noise is unbounded), the
\* worker's decoder decodes them and the result is compared with the
\* message.
SimulateFrame ==
    /\ unit.fn = "simulate"
    /\ ncalls < MaxCalls
    /\ \E message \in [1..unit.k -> {0, 1}], llrs \in [1..num_cols(h) -> InputLlrValues] :
          LET codeword == encode(unit.encoder, Collect(message))
              r == IF schedule = "flooding"
                   THEN FloodingDecode(flooding, h, arithmetic, llrs, unit.max_iterations)
                   ELSE LayeredDecode(layered, h, arithmetic, llrs, unit.max_iterations)
          IN  /\ input' = [message |-> Collect(message), codeword |-> codeword]
              /\ IF schedule = "flooding"
                 THEN flooding' = r.dec /\ UNCHANGED layered
                 ELSE layered' = r.dec /\ UNCHANGED flooding
              /\ result' = r.res
              /\ call' = [llrs |-> llrs, max_iterations |-> unit.max_iterations]
              /\ output' = WorkerResultOk(
                    [bit_errors |-> bit_errors(Collect(message), r.res.codeword),
                     success |-> r.res.ok,
                     iterations |-> r.res.iterations])
    /\ ncalls' = ncalls + 1
    /\ UNCHANGED <<schedule, arithmetic, h, unit>>
    /\ UNCHANGED berVars

SimulateNext == SimulateFrame

SpecSimulate == SimulateInit /\ [][SimulateNext]_vars

\* ---------------------------------------------------------------- C11

\* C11: a frame is counted as a false decode exactly when the decoder
\* returned Ok and the decoded codeword differs from the transmitted
\* codeword somewhere (not only in the first k bits that simulate
\* compares), for every parity check matrix the encoder accepts and both
\* schedules.
C11_FalseDecodeIffWrongCodeword ==
    ncalls > 0 =>
        (output.false_decode <=> (result.ok /\ result.codeword # input.codeword))

\* A false decode reached by iterating (not on the fast path), on a code
\* with at least two parity bits.
C11_Witness ==
    /\ ncalls > 0
    /\ output.false_decode
    /\ result.iterations > 0
    /\ unit.k < num_cols(h) - 1

\* ---------------------------------------------------------------- C12

\* C12: every channel between the workers and the aggregator is bounded by
\* a constant that does not depend on the length of the run: a worker's
\* send waits while the aggregator is slow, so the results channel never
\* holds all the frames the workers simulate over an Eb/N0 (MaxFrames each),
\* and a terminate channel never holds more than its capacity of one.
C12_ChannelsBounded ==
    /\ Len(results) < NumWorkers * MaxFrames
    /\ \A w \in Workers : wpc # <<>> => terminate[w] <= 1

\* ------------------------------------------------ A-Min* 8-bit arithmetic

\* i8::saturating_add of two non-negative values.
saturating_add(x, y) == Min(x + y, 127)

\* impl_aminstari8, send_check_messages: min_by_key(|msg| msg.value.abs()),
\* the first position of minimum magnitude.
argmin(var_messages) ==
    CHOOSE j \in 1..Len(var_messages) :
        \A i \in 1..Len(var_messages) :
            \/ Abs(var_messages[j].value) < Abs(var_messages[i].value)
            \/ (Abs(var_messages[j].value) = Abs(var_messages[i].value) /\ j <= i)

\* The approximation of min* with both correction terms, clamped at 0.
aminstar(x, y) ==
    Max(Min(x, y) - lookup(Abs(x - y)) + lookup(saturating_add(x, y)), 0)

\* impl_aminstari8, send_check_messages, first loop from position j on: the
\* sign of all the messages and delta over those other than the minimum.
RECURSIVE AminstarFold(_, _, _, _)
AminstarFold(var_messages, skip, j, acc) ==
    IF j > Len(var_messages) THEN acc
    ELSE LET x == var_messages[j].value
             sign == IF x < 0 THEN 1 - acc.sign ELSE acc.sign
             next == IF j = skip THEN [acc EXCEPT !.sign = sign]
                     ELSE IF ~acc.some
                     THEN [some |-> TRUE, sign |-> sign, delta |-> Abs(x)]
                     ELSE [some |-> TRUE, sign |-> sign, delta |-> aminstar(Abs(x), acc.delta)]
         IN  AminstarFold(var_messages, skip, j + 1, next)

\* send_check_messages of Aminstari8*: the sequence of SentMessage it sends,
\* in order: first to the minimum, then to the others.  As for the min*
\* rule the model is only used on degree >= 2.
aminstari8_send_check_messages(a, var_messages) ==
    LET am == argmin(var_messages)
        msgmin == var_messages[am]
        acc == AminstarFold(var_messages, am, 1, [some |-> FALSE, sign |-> 0, delta |-> 0])
        delta_hl == partial_hard_limit(a, acc.delta)
        vmin == Abs(msgmin.value)
        delta2 == aminstar(acc.delta, vmin)
        delta2_hl == partial_hard_limit(a, delta2)
        others == SelectSeq(var_messages, LAMBDA msg : msg.source # msgmin.source)
    IN  <<[dest |-> msgmin.source,
           value |-> IF (acc.sign # 0) # (msgmin.value < 0) THEN -delta_hl ELSE delta_hl]>>
        \o Collect([i \in 1..Len(others) |->
              [dest |-> others[i].source,
               value |-> IF (acc.sign # 0) # (others[i].value < 0)
                         THEN -delta2_hl ELSE delta2_hl]])

\* ------------------------------------------------- one check node followed

\* Largest degree of the node followed on its own.
MaxDegree == 3

\* The three switches of the sixteen i8 arithmetics.
Switches == [jones : BOOLEAN, phl : BOOLEAN, deg1 : BOOLEAN]

CheckRules == {"Minstarapproxi8", "Aminstari8"}

\* i8 message values offered to a node: the extremes, values on both sides
\* of the partial hard limit, close values and zero.
MessageValues == {-127, -100, -12, 0, 10, 12, 60, 99, 127}

\* Messages<T> of one node: message i comes from neighbour i.
MessagesOf(values) == Collect([i \in 1..Len(values) |-> [source |-> i, value |-> values[i]]])

\* send_check_messages of the arithmetic u.
SendCheckMessages(u, var_messages) ==
    IF u.rule = "Aminstari8" THEN aminstari8_send_check_messages(u.a, var_messages)
    ELSE send_check_messages(u.a, var_messages)

\* The value sent to neighbour j.
MessageTo(sent, j) == (CHOOSE i \in 1..Len(sent) : sent[i].dest = j)

ValueTo(sent, j) == sent[MessageTo(sent, j)].value

\* process_check_nodes for one check node, first iteration: the variable
\* messages are in place and the check messages are sent.
CheckNodeInit ==
    /\ NoBerTest
    /\ NoDecoder
    /\ \E rule \in CheckRules, a \in Switches :
          unit = [fn |-> "send_check_messages", rule |-> rule, a |-> a]
    /\ \E d \in 2..MaxDegree : \E values \in [1..d -> MessageValues] :
          input = MessagesOf(values)
    /\ output = SendCheckMessages(unit, input)

\* A later iteration in which a single neighbour j has sent another message:
\* process_check_nodes sends the check messages again.
VarMessageChanges ==
    /\ unit.fn = "send_check_messages"
    /\ \E j \in 1..Len(input), y \in MessageValues :
          /\ y # input[j].value
          /\ input' = [input EXCEPT ![j] = [source |-> j, value |-> y]]
          /\ output' = SendCheckMessages(unit, [input EXCEPT ![j] = [source |-> j, value |-> y]])
    /\ UNCHANGED unit
    /\ UNCHANGED <<decoderVars, berVars>>

CheckNodeNext == VarMessageChanges

SpecCheckNode == CheckNodeInit /\ [][CheckNodeNext]_vars

\* ---------------------------------------------------------------- C13

\* The neighbours whose incoming message differs between two calls.
ChangedAt(before, after) == {j \in 1..Len(before) : before[j].value # after[j].value}

MaxRangeIterations == 3

\* The number of check nodes the variable node of highest degree is in.
HubDegree == 260

\* A parity check matrix with one variable node (column 1) in HubDegree check
\* nodes of degree two: row r has ones in columns 1 and r + 1.
StarMatrix == FromRows(HubDegree + 1, Collect([r \in 1..HubDegree |-> <<1, r + 1>>]))

\* The parity check matrices of the range check: all check nodes have degree
\* >= 2.
RangeMatrices == Matrices \cup {StarMatrix}

\* Input LLRs as multiples of 1/32: -16.0, -1.5, 1.5 and 16.0.
RangeLlrValues == {-512, -48, 48, 512}

\* The inputs decode is called with: any values on the small matrices, and on
\* the star matrix a confident 1 for the hub and a confident 0 for every other
\* bit (each check is then violated).
RangeInputs(hm) ==
    IF hm = StarMatrix
    THEN {Collect([v \in 1..num_cols(hm) |-> IF v = 1 THEN -512 ELSE 512])}
    ELSE {Collect(f) : f \in [1..num_cols(hm) -> RangeLlrValues]}

InRange(x) == -127 <= x /\ x <= 127

\* Every value a flooding decoder holds is in [-127, 127].
AllInRange(d) ==
    /\ \A v \in 1..Len(d.input_llrs) : InRange(d.input_llrs[v])
    /\ \A v \in 1..Len(d.output_llrs) : InRange(d.output_llrs[v])
    /\ \A v \in 1..Len(d.check_messages) :
          \A i \in 1..Len(d.check_messages[v]) : InRange(d.check_messages[v][i].value)
    /\ \A c \in 1..Len(d.variable_messages) :
          \A i \in 1..Len(d.variable_messages[c]) : InRange(d.variable_messages[c][i].value)

\* process_variable_nodes on d: some call of send_var_messages overflows.
process_variable_nodes_overflows(d, a) ==
    \E v \in 1..Len(d.check_messages) :
        send_var_messages_overflows(a, d.input_llrs[v], d.check_messages[v])

\* decode up to its loop: the fast path returns, otherwise initialize runs.
RangeInit ==
    /\ NoDecoder
    /\ NoBerTest
    /\ \E hm \in RangeMatrices, a \in Switches :
         \E raw \in RangeInputs(hm) :
            LET fast == check_llrs(hm, RawHard(raw))
            IN  /\ unit = [fn |-> "decode", hm |-> hm, a |-> a, iteration |-> 0,
                           done |-> fast,
                           d |-> IF fast THEN FloodingNew(hm)
                                 ELSE initialize(FloodingNew(hm), hm, raw)]
                /\ input = raw
                /\ output = [overflow |-> FALSE, minstar |-> <<>>]

\* One pass of the loop of decode: process_check_nodes,
\* process_variable_nodes, then the parity check on the hard decisions.
\* output records whether an i16 operation overflowed and the values minstar
\* the check nodes computed before partial_hard_limit was applied to them.
FloodingIteration ==
    /\ unit.fn = "decode"
    /\ ~unit.done
    /\ unit.iteration < MaxRangeIterations
    /\ LET d1 == process_check_nodes(unit.d, unit.a)
           d2 == process_variable_nodes(d1, unit.a)
       IN  /\ unit' = [unit EXCEPT !.d = d2,
                                   !.iteration = @ + 1,
                                   !.done = check_llrs(unit.hm, OutputHard(d2))]
           /\ output' = [overflow |-> output.overflow
                                        \/ process_variable_nodes_overflows(d1, unit.a),
                         minstar  |-> process_check_nodes(
                                          unit.d, [unit.a EXCEPT !.phl = FALSE]).check_messages]
    /\ UNCHANGED <<decoderVars, berVars, input>>

RangeNext == FloodingIteration

SpecRange == RangeInit /\ [][RangeNext]_vars

\* C14: in every flooding decode with an i8 arithmetic on a graph whose check
\* nodes have degree >= 2, every quantized input LLR, posterior, variable
\* message and check message is in [-127, 127] and no i16 operation of
\* send_var_messages overflows.
C14_RangesAndNoOverflow ==
    unit.fn = "decode" => AllInRange(unit.d) /\ ~output.overflow

\* ------------------------------------------------ send_var_messages (i8)

\* Saturation to [-bound, bound].
Saturate(x, bound) == IF x > bound THEN bound ELSE IF x < -bound THEN -bound ELSE x

\* A check message with partial hard-limit: magnitude >= 100 becomes 127 with
\* the same sign.
HardLimited(x) == IF x >= 100 THEN 127 ELSE IF x <= -100 THEN -127 ELSE x

\* The incoming message of variable node v from its i-th check node.
IncomingValue(d, v, i) == d.check_messages[v][i].value

\* L of variable node v: the input LLR, saturated to [-116, 116] under
\* degree-one clipping when v is in exactly one check node, plus all incoming
\* check messages, in i16.
TotalLlr(d, a, v) ==
    LET degree == Len(d.check_messages[v])
        first == IF a.deg1 /\ degree = 1 THEN Saturate(d.input_llrs[v], 116)
                 ELSE d.input_llrs[v]
    IN  I16(first + SumRange(Collect([i \in 1..degree |-> IncomingValue(d, v, i)]), 1, degree))

\* The message check node c holds from variable node v.
VariableMessageFrom(d, c, v) ==
    LET slots == {i \in 1..Len(d.variable_messages[c]) : d.variable_messages[c][i].source = v}
    IN  d.variable_messages[c][CHOOSE i \in slots : TRUE].value

\* Variable node v after process_variable_nodes: its posterior is clip(L) and
\* the message to each of its check nodes c is clip(L - m_c), L being
\* saturated to [-127, 127] first under Jones clipping.
VariableNodeSent(d, a, v) ==
    LET L == TotalLlr(d, a, v)
        before == IF a.jones THEN Saturate(L, 127) ELSE L
    IN  /\ d.output_llrs[v] = Saturate(L, 127)
        /\ \A i \in 1..Len(d.check_messages[v]) :
              VariableMessageFrom(d, d.check_messages[v][i].source, v)
                  = Saturate(I16(before - IncomingValue(d, v, i)), 127)

\* The check messages are the values minstar, hard-limited when the arithmetic
\* has the partial hard-limit and unchanged when it has not.
CheckMessagesLimited(d, a, minstar) ==
    \A v \in 1..Len(d.check_messages) :
        \A i \in 1..Len(d.check_messages[v]) :
            d.check_messages[v][i].value
                = IF a.phl THEN HardLimited(minstar[v][i].value) ELSE minstar[v][i].value

\* C15: after an iteration, every variable node has posterior clip(L) and has
\* sent clip(L - m_c) to each incident check c, with L = input_llr + the sum
\* of all m_c in i16; Jones clipping saturates L to [-127, 127] before the
\* subtraction; degree-one clipping saturates input_llr to [-116, 116] when
\* there is exactly one incident check; partial hard-limit replaces a check
\* message of magnitude >= 100 by 127 with the same sign; and this holds for
\* each combination of the three switches.
C15_SendVarMessages ==
    (unit.fn = "decode" /\ unit.iteration > 0) =>
        /\ \A v \in 1..Len(unit.d.check_messages) : VariableNodeSent(unit.d, unit.a, v)
        /\ CheckMessagesLimited(unit.d, unit.a, output.minstar)

\* Some variable node with a single check node has an input LLR beyond 116 in
\* magnitude, some variable node has |L| > 127, and some check message was of
\* magnitude 100..126 before the limit, in an arithmetic with all three
\* switches.
C15_Witness ==
    /\ unit.fn = "decode" /\ unit.iteration > 0
    /\ unit.a = [jones |-> TRUE, phl |-> TRUE, deg1 |-> TRUE]
    /\ \E v \in 1..Len(unit.d.check_messages) :
          Len(unit.d.check_messages[v]) = 1 /\ Abs(unit.d.input_llrs[v]) > 116
    /\ \E v \in 1..Len(unit.d.check_messages) :
          /\ Abs(TotalLlr(unit.d, unit.a, v)) > 127
          /\ \E i \in 1..Len(unit.d.check_messages[v]) :
                Saturate(I16(Saturate(TotalLlr(unit.d, unit.a, v), 127)
                               - IncomingValue(unit.d, v, i)), 127)
                  # Saturate(I16(TotalLlr(unit.d, unit.a, v) - IncomingValue(unit.d, v, i)), 127)
    /\ \E v \in 1..Len(output.minstar) :
          \E i \in 1..Len(output.minstar[v]) :
              Abs(output.minstar[v][i].value) >= 100 /\ Abs(output.minstar[v][i].value) < 127

\* ------------------------------------------------------- decoder factory

\* The rows of impl_decoderimplementation!: variant, arithmetic type, decoder
\* module and text.
Implementations ==
    << [var |-> "Phif64", arith |-> "Phif64", decoder |-> "flooding", text |-> "Phif64"],
       [var |-> "Phif32", arith |-> "Phif32", decoder |-> "flooding", text |-> "Phif32"],
       [var |-> "Tanhf64", arith |-> "Tanhf64", decoder |-> "flooding", text |-> "Tanhf64"],
       [var |-> "Tanhf32", arith |-> "Tanhf32", decoder |-> "flooding", text |-> "Tanhf32"],
       [var |-> "Minstarapproxf64", arith |-> "Minstarapproxf64", decoder |-> "flooding", text |-> "Minstarapproxf64"],
       [var |-> "Minstarapproxf32", arith |-> "Minstarapproxf32", decoder |-> "flooding", text |-> "Minstarapproxf32"],
       [var |-> "Minstarapproxi8", arith |-> "Minstarapproxi8", decoder |-> "flooding", text |-> "Minstarapproxi8"],
       [var |-> "Minstarapproxi8Jones", arith |-> "Minstarapproxi8Jones", decoder |-> "flooding", text |-> "Minstarapproxi8Jones"],
       [var |-> "Minstarapproxi8PartialHardLimit", arith |-> "Minstarapproxi8PartialHardLimit", decoder |-> "flooding", text |-> "Minstarapproxi8PartialHardLimit"],
       [var |-> "Minstarapproxi8JonesPartialHardLimit", arith |-> "Minstarapproxi8JonesPartialHardLimit", decoder |-> "flooding", text |-> "Minstarapproxi8JonesPartialHardLimit"],
       [var |-> "Minstarapproxi8Deg1Clip", arith |-> "Minstarapproxi8Deg1Clip", decoder |-> "flooding", text |-> "Minstarapproxi8Deg1Clip"],
       [var |-> "Minstarapproxi8JonesDeg1Clip", arith |-> "Minstarapproxi8JonesDeg1Clip", decoder |-> "flooding", text |-> "Minstarapproxi8JonesDeg1Clip"],
       [var |-> "Minstarapproxi8PartialHardLimitDeg1Clip", arith |-> "Minstarapproxi8PartialHardLimitDeg1Clip", decoder |-> "flooding", text |-> "Minstarapproxi8PartialHardLimitDeg1Clip"],
       [var |-> "Minstarapproxi8JonesPartialHardLimitDeg1Clip", arith |-> "Minstarapproxi8JonesPartialHardLimitDeg1Clip", decoder |-> "flooding", text |-> "Minstarapproxi8JonesPartialHardLimitDeg1Clip"],
       [var |-> "Aminstarf64", arith |-> "Aminstarf64", decoder |-> "flooding", text |-> "Aminstarf64"],
       [var |-> "Aminstarf32", arith |-> "Aminstarf32", decoder |-> "flooding", text |-> "Aminstarf32"],
       [var |-> "Aminstari8", arith |-> "Aminstari8", decoder |-> "flooding", text |-> "Aminstari8"],
       [var |-> "Aminstari8Jones", arith |-> "Aminstari8Jones", decoder |-> "flooding", text |-> "Aminstari8Jones"],
       [var |-> "Aminstari8PartialHardLimit", arith |-> "Aminstari8PartialHardLimit", decoder |-> "flooding", text |-> "Aminstari8PartialHardLimit"],
       [var |-> "Aminstari8JonesPartialHardLimit", arith |-> "Aminstari8JonesPartialHardLimit", decoder |-> "flooding", text |-> "Aminstari8JonesPartialHardLimit"],
       [var |-> "Aminstari8Deg1Clip", arith |-> "Aminstari8Deg1Clip", decoder |-> "flooding", text |-> "Aminstari8Deg1Clip"],
       [var |-> "Aminstari8JonesDeg1Clip", arith |-> "Aminstari8JonesDeg1Clip", decoder |-> "flooding", text |-> "Aminstari8JonesDeg1Clip"],
       [var |-> "Aminstari8PartialHardLimitDeg1Clip", arith |-> "Aminstari8PartialHardLimitDeg1Clip", decoder |-> "flooding", text |-> "Aminstari8PartialHardLimitDeg1Clip"],
       [var |-> "Aminstari8JonesPartialHardLimitDeg1Clip", arith |-> "Aminstari8JonesPartialHardLimitDeg1Clip", decoder |-> "flooding", text |-> "Aminstari8JonesPartialHardLimitDeg1Clip"],
       [var |-> "HLPhif64", arith |-> "Phif64", decoder |-> "horizontal_layered", text |-> "HLPhif64"],
       [var |-> "HLPhif32", arith |-> "Phif32", decoder |-> "horizontal_layered", text |-> "HLPhif32"],
       [var |-> "HLTanhf64", arith |-> "Tanhf64", decoder |-> "horizontal_layered", text |-> "HLTanhf64"],
       [var |-> "HLTanhf32", arith |-> "Tanhf32", decoder |-> "horizontal_layered", text |-> "HLTanhf32"],
       [var |-> "HLMinstarapproxf64", arith |-> "Minstarapproxf64", decoder |-> "horizontal_layered", text |-> "HLMinstarapproxf64"],
       [var |-> "HLMinstarapproxf32", arith |-> "Minstarapproxf32", decoder |-> "horizontal_layered", text |-> "HLMinstarapproxf32"],
       [var |-> "HLMinstarapproxi8", arith |-> "Minstarapproxi8", decoder |-> "horizontal_layered", text |-> "HLMinstarapproxi8"],
       [var |-> "HLMinstarapproxi8PartialHardLimit", arith |-> "Minstarapproxi8PartialHardLimit", decoder |-> "horizontal_layered", text |-> "HLMinstarapproxi8PartialHardLimit"],
       [var |-> "HLAminstarf64", arith |-> "Aminstarf64", decoder |-> "horizontal_layered", text |-> "HLAminstarf64"],
       [var |-> "HLAminstarf32", arith |-> "Aminstarf32", decoder |-> "horizontal_layered", text |-> "HLAminstarf32"],
       [var |-> "HLAminstari8", arith |-> "Aminstari8", decoder |-> "horizontal_layered", text |-> "HLAminstari8"],
       [var |-> "HLAminstari8PartialHardLimit", arith |-> "Aminstari8", decoder |-> "horizontal_layered", text |-> "HLAminstari8PartialHardLimit"] >>

\* The documentation of each variant of DecoderImplementation: the arithmetic
\* it links to, the schedule and the options it says the variant uses.
Documentation ==
    << [var |-> "Phif64", arith |-> "Phif64", schedule |-> "flooding",
        jones |-> FALSE, phl |-> FALSE, deg1 |-> FALSE],
       [var |-> "Phif32", arith |-> "Phif32", schedule |-> "flooding",
        jones |-> FALSE, phl |-> FALSE, deg1 |-> FALSE],
       [var |-> "Tanhf64", arith |-> "Tanhf64", schedule |-> "flooding",
        jones |-> FALSE, phl |-> FALSE, deg1 |-> FALSE],
       [var |-> "Tanhf32", arith |-> "Tanhf32", schedule |-> "flooding",
        jones |-> FALSE, phl |-> FALSE, deg1 |-> FALSE],
       [var |-> "Minstarapproxf64", arith |-> "Minstarapproxf64", schedule |-> "flooding",
        jones |-> FALSE, phl |-> FALSE, deg1 |-> FALSE],
       [var |-> "Minstarapproxf32", arith |-> "Minstarapproxf32", schedule |-> "flooding",
        jones |-> FALSE, phl |-> FALSE, deg1 |-> FALSE],
       [var |-> "Minstarapproxi8", arith |-> "Minstarapproxi8", schedule |-> "flooding",
        jones |-> FALSE, phl |-> FALSE, deg1 |-> FALSE],
       [var |-> "Minstarapproxi8Jones", arith |-> "Minstarapproxi8Jones", schedule |-> "flooding",
        jones |-> TRUE, phl |-> FALSE, deg1 |-> FALSE],
       [var |-> "Minstarapproxi8PartialHardLimit", arith |-> "Minstarapproxi8PartialHardLimit", schedule |-> "flooding",
        jones |-> FALSE, phl |-> TRUE, deg1 |-> FALSE],
       [var |-> "Minstarapproxi8JonesPartialHardLimit", arith |-> "Minstarapproxi8JonesPartialHardLimit", schedule |-> "flooding",
        jones |-> TRUE, phl |-> TRUE, deg1 |-> FALSE],
       [var |-> "Minstarapproxi8Deg1Clip", arith |-> "Minstarapproxi8Deg1Clip", schedule |-> "flooding",
        jones |-> FALSE, phl |-> FALSE, deg1 |-> TRUE],
       [var |-> "Minstarapproxi8JonesDeg1Clip", arith |-> "Minstarapproxi8JonesDeg1Clip", schedule |-> "flooding",
        jones |-> TRUE, phl |-> FALSE, deg1 |-> TRUE],
       [var |-> "Minstarapproxi8PartialHardLimitDeg1Clip", arith |-> "Minstarapproxi8PartialHardLimitDeg1Clip", schedule |-> "flooding",
        jones |-> FALSE, phl |-> TRUE, deg1 |-> TRUE],
       [var |-> "Minstarapproxi8JonesPartialHardLimitDeg1Clip", arith |-> "Minstarapproxi8JonesPartialHardLimitDeg1Clip", schedule |-> "flooding",
        jones |-> TRUE, phl |-> TRUE, deg1 |-> TRUE],
       [var |-> "Aminstarf64", arith |-> "Aminstarf64", schedule |-> "flooding",
        jones |-> FALSE, phl |-> FALSE, deg1 |-> FALSE],
       [var |-> "Aminstarf32", arith |-> "Aminstarf32", schedule |-> "flooding",
        jones |-> FALSE, phl |-> FALSE, deg1 |-> FALSE],
       [var |-> "Aminstari8", arith |-> "Aminstari8", schedule |-> "flooding",
        jones |-> FALSE, phl |-> FALSE, deg1 |-> FALSE],
       [var |-> "Aminstari8Jones", arith |-> "Aminstari8Jones", schedule |-> "flooding",
        jones |-> TRUE, phl |-> FALSE, deg1 |-> FALSE],
       [var |-> "Aminstari8PartialHardLimit", arith |-> "Aminstari8PartialHardLimit", schedule |-> "flooding",
        jones |-> FALSE, phl |-> TRUE, deg1 |-> FALSE],
       [var |-> "Aminstari8JonesPartialHardLimit", arith |-> "Aminstari8JonesPartialHardLimit", schedule |-> "flooding",
        jones |-> TRUE, phl |-> TRUE, deg1 |-> FALSE],
       [var |-> "Aminstari8Deg1Clip", arith |-> "Aminstari8Deg1Clip", schedule |-> "flooding",
        jones |-> FALSE, phl |-> FALSE, deg1 |-> TRUE],
       [var |-> "Aminstari8JonesDeg1Clip", arith |-> "Aminstari8JonesDeg1Clip", schedule |-> "flooding",
        jones |-> TRUE, phl |-> FALSE, deg1 |-> TRUE],
       [var |-> "Aminstari8PartialHardLimitDeg1Clip", arith |-> "Aminstari8PartialHardLimitDeg1Clip", schedule |-> "flooding",
        jones |-> FALSE, phl |-> TRUE, deg1 |-> TRUE],
       [var |-> "Aminstari8JonesPartialHardLimitDeg1Clip", arith |-> "Aminstari8JonesPartialHardLimitDeg1Clip", schedule |-> "flooding",
        jones |-> TRUE, phl |-> TRUE, deg1 |-> TRUE],
       [var |-> "HLPhif64", arith |-> "Phif64", schedule |-> "horizontal_layered",
        jones |-> FALSE, phl |-> FALSE, deg1 |-> FALSE],
       [var |-> "HLPhif32", arith |-> "Phif32", schedule |-> "horizontal_layered",
        jones |-> FALSE, phl |-> FALSE, deg1 |-> FALSE],
       [var |-> "HLTanhf64", arith |-> "Tanhf64", schedule |-> "horizontal_layered",
        jones |-> FALSE, phl |-> FALSE, deg1 |-> FALSE],
       [var |-> "HLTanhf32", arith |-> "Tanhf32", schedule |-> "horizontal_layered",
        jones |-> FALSE, phl |-> FALSE, deg1 |-> FALSE],
       [var |-> "HLMinstarapproxf64", arith |-> "Minstarapproxf64", schedule |-> "horizontal_layered",
        jones |-> FALSE, phl |-> FALSE, deg1 |-> FALSE],
       [var |-> "HLMinstarapproxf32", arith |-> "Minstarapproxf32", schedule |-> "horizontal_layered",
        jones |-> FALSE, phl |-> FALSE, deg1 |-> FALSE],
       [var |-> "HLMinstarapproxi8", arith |-> "Minstarapproxi8", schedule |-> "horizontal_layered",
        jones |-> FALSE, phl |-> FALSE, deg1 |-> FALSE],
       [var |-> "HLMinstarapproxi8PartialHardLimit", arith |-> "Minstarapproxi8PartialHardLimit", schedule |-> "horizontal_layered",
        jones |-> FALSE, phl |-> TRUE, deg1 |-> FALSE],
       [var |-> "HLAminstarf64", arith |-> "Aminstarf64", schedule |-> "horizontal_layered",
        jones |-> FALSE, phl |-> FALSE, deg1 |-> FALSE],
       [var |-> "HLAminstarf32", arith |-> "Aminstarf32", schedule |-> "horizontal_layered",
        jones |-> FALSE, phl |-> FALSE, deg1 |-> FALSE],
       [var |-> "HLAminstari8", arith |-> "Aminstari8", schedule |-> "horizontal_layered",
        jones |-> FALSE, phl |-> FALSE, deg1 |-> FALSE],
       [var |-> "HLAminstari8PartialHardLimit", arith |-> "Aminstari8PartialHardLimit", schedule |-> "horizontal_layered",
        jones |-> FALSE, phl |-> TRUE, deg1 |-> FALSE] >>

\* The arithmetic types: the float ones, which take no options, and the
\* instantiations of impl_minstarapproxi8! and impl_aminstari8! with their
\* jones_clip, partial_hard_limit and degree_one_clipping arguments.
ArithmeticTypes ==
    << [name |-> "Phif64", rule |-> "Phif", jones |-> FALSE, phl |-> FALSE, deg1 |-> FALSE],
       [name |-> "Phif32", rule |-> "Phif", jones |-> FALSE, phl |-> FALSE, deg1 |-> FALSE],
       [name |-> "Tanhf64", rule |-> "Tanhf", jones |-> FALSE, phl |-> FALSE, deg1 |-> FALSE],
       [name |-> "Tanhf32", rule |-> "Tanhf", jones |-> FALSE, phl |-> FALSE, deg1 |-> FALSE],
       [name |-> "Minstarapproxf64", rule |-> "Minstarapproxf", jones |-> FALSE, phl |-> FALSE, deg1 |-> FALSE],
       [name |-> "Minstarapproxf32", rule |-> "Minstarapproxf", jones |-> FALSE, phl |-> FALSE, deg1 |-> FALSE],
       [name |-> "Aminstarf64", rule |-> "Aminstarf", jones |-> FALSE, phl |-> FALSE, deg1 |-> FALSE],
       [name |-> "Aminstarf32", rule |-> "Aminstarf", jones |-> FALSE, phl |-> FALSE, deg1 |-> FALSE],
       [name |-> "Minstarapproxi8", rule |-> "Minstarapproxi8", jones |-> FALSE, phl |-> FALSE, deg1 |-> FALSE],
       [name |-> "Minstarapproxi8Jones", rule |-> "Minstarapproxi8", jones |-> TRUE, phl |-> FALSE, deg1 |-> FALSE],
       [name |-> "Minstarapproxi8PartialHardLimit", rule |-> "Minstarapproxi8", jones |-> FALSE, phl |-> TRUE, deg1 |-> FALSE],
       [name |-> "Minstarapproxi8JonesPartialHardLimit", rule |-> "Minstarapproxi8", jones |-> TRUE, phl |-> TRUE, deg1 |-> FALSE],
       [name |-> "Minstarapproxi8Deg1Clip", rule |-> "Minstarapproxi8", jones |-> FALSE, phl |-> FALSE, deg1 |-> TRUE],
       [name |-> "Minstarapproxi8JonesDeg1Clip", rule |-> "Minstarapproxi8", jones |-> TRUE, phl |-> FALSE, deg1 |-> TRUE],
       [name |-> "Minstarapproxi8PartialHardLimitDeg1Clip", rule |-> "Minstarapproxi8", jones |-> FALSE, phl |-> TRUE, deg1 |-> TRUE],
       [name |-> "Minstarapproxi8JonesPartialHardLimitDeg1Clip", rule |-> "Minstarapproxi8", jones |-> TRUE, phl |-> TRUE, deg1 |-> TRUE],
       [name |-> "Aminstari8", rule |-> "Aminstari8", jones |-> FALSE, phl |-> FALSE, deg1 |-> FALSE],
       [name |-> "Aminstari8Jones", rule |-> "Aminstari8", jones |-> TRUE, phl |-> FALSE, deg1 |-> FALSE],
       [name |-> "Aminstari8PartialHardLimit", rule |-> "Aminstari8", jones |-> FALSE, phl |-> TRUE, deg1 |-> FALSE],
       [name |-> "Aminstari8JonesPartialHardLimit", rule |-> "Aminstari8", jones |-> TRUE, phl |-> TRUE, deg1 |-> FALSE],
       [name |-> "Aminstari8Deg1Clip", rule |-> "Aminstari8", jones |-> FALSE, phl |-> FALSE, deg1 |-> TRUE],
       [name |-> "Aminstari8JonesDeg1Clip", rule |-> "Aminstari8", jones |-> TRUE, phl |-> FALSE, deg1 |-> TRUE],
       [name |-> "Aminstari8PartialHardLimitDeg1Clip", rule |-> "Aminstari8", jones |-> FALSE, phl |-> TRUE, deg1 |-> TRUE],
       [name |-> "Aminstari8JonesPartialHardLimitDeg1Clip", rule |-> "Aminstari8", jones |-> TRUE, phl |-> TRUE, deg1 |-> TRUE] >>

\* The name of each variant: the HL prefix and the options it spells out.
VariantNames ==
    << [var |-> "Phif64", hl |-> FALSE, jones |-> FALSE, phl |-> FALSE, deg1 |-> FALSE],
       [var |-> "Phif32", hl |-> FALSE, jones |-> FALSE, phl |-> FALSE, deg1 |-> FALSE],
       [var |-> "Tanhf64", hl |-> FALSE, jones |-> FALSE, phl |-> FALSE, deg1 |-> FALSE],
       [var |-> "Tanhf32", hl |-> FALSE, jones |-> FALSE, phl |-> FALSE, deg1 |-> FALSE],
       [var |-> "Minstarapproxf64", hl |-> FALSE, jones |-> FALSE, phl |-> FALSE, deg1 |-> FALSE],
       [var |-> "Minstarapproxf32", hl |-> FALSE, jones |-> FALSE, phl |-> FALSE, deg1 |-> FALSE],
       [var |-> "Minstarapproxi8", hl |-> FALSE, jones |-> FALSE, phl |-> FALSE, deg1 |-> FALSE],
       [var |-> "Minstarapproxi8Jones", hl |-> FALSE, jones |-> TRUE, phl |-> FALSE, deg1 |-> FALSE],
       [var |-> "Minstarapproxi8PartialHardLimit", hl |-> FALSE, jones |-> FALSE, phl |-> TRUE, deg1 |-> FALSE],
       [var |-> "Minstarapproxi8JonesPartialHardLimit", hl |-> FALSE, jones |-> TRUE, phl |-> TRUE, deg1 |-> FALSE],
       [var |-> "Minstarapproxi8Deg1Clip", hl |-> FALSE, jones |-> FALSE, phl |-> FALSE, deg1 |-> TRUE],
       [var |-> "Minstarapproxi8JonesDeg1Clip", hl |-> FALSE, jones |-> TRUE, phl |-> FALSE, deg1 |-> TRUE],
       [var |-> "Minstarapproxi8PartialHardLimitDeg1Clip", hl |-> FALSE, jones |-> FALSE, phl |-> TRUE, deg1 |-> TRUE],
       [var |-> "Minstarapproxi8JonesPartialHardLimitDeg1Clip", hl |-> FALSE, jones |-> TRUE, phl |-> TRUE, deg1 |-> TRUE],
       [var |-> "Aminstarf64", hl |-> FALSE, jones |-> FALSE, phl |-> FALSE, deg1 |-> FALSE],
       [var |-> "Aminstarf32", hl |-> FALSE, jones |-> FALSE, phl |-> FALSE, deg1 |-> FALSE],
       [var |-> "Aminstari8", hl |-> FALSE, jones |-> FALSE, phl |-> FALSE, deg1 |-> FALSE],
       [var |-> "Aminstari8Jones", hl |-> FALSE, jones |-> TRUE, phl |-> FALSE, deg1 |-> FALSE],
       [var |-> "Aminstari8PartialHardLimit", hl |-> FALSE, jones |-> FALSE, phl |-> TRUE, deg1 |-> FALSE],
       [var |-> "Aminstari8JonesPartialHardLimit", hl |-> FALSE, jones |-> TRUE, phl |-> TRUE, deg1 |-> FALSE],
       [var |-> "Aminstari8Deg1Clip", hl |-> FALSE, jones |-> FALSE, phl |-> FALSE, deg1 |-> TRUE],
       [var |-> "Aminstari8JonesDeg1Clip", hl |-> FALSE, jones |-> TRUE, phl |-> FALSE, deg1 |-> TRUE],
       [var |-> "Aminstari8PartialHardLimitDeg1Clip", hl |-> FALSE, jones |-> FALSE, phl |-> TRUE, deg1 |-> TRUE],
       [var |-> "Aminstari8JonesPartialHardLimitDeg1Clip", hl |-> FALSE, jones |-> TRUE, phl |-> TRUE, deg1 |-> TRUE],
       [var |-> "HLPhif64", hl |-> TRUE, jones |-> FALSE, phl |-> FALSE, deg1 |-> FALSE],
       [var |-> "HLPhif32", hl |-> TRUE, jones |-> FALSE, phl |-> FALSE, deg1 |-> FALSE],
       [var |-> "HLTanhf64", hl |-> TRUE, jones |-> FALSE, phl |-> FALSE, deg1 |-> FALSE],
       [var |-> "HLTanhf32", hl |-> TRUE, jones |-> FALSE, phl |-> FALSE, deg1 |-> FALSE],
       [var |-> "HLMinstarapproxf64", hl |-> TRUE, jones |-> FALSE, phl |-> FALSE, deg1 |-> FALSE],
       [var |-> "HLMinstarapproxf32", hl |-> TRUE, jones |-> FALSE, phl |-> FALSE, deg1 |-> FALSE],
       [var |-> "HLMinstarapproxi8", hl |-> TRUE, jones |-> FALSE, phl |-> FALSE, deg1 |-> FALSE],
       [var |-> "HLMinstarapproxi8PartialHardLimit", hl |-> TRUE, jones |-> FALSE, phl |-> TRUE, deg1 |-> FALSE],
       [var |-> "HLAminstarf64", hl |-> TRUE, jones |-> FALSE, phl |-> FALSE, deg1 |-> FALSE],
       [var |-> "HLAminstarf32", hl |-> TRUE, jones |-> FALSE, phl |-> FALSE, deg1 |-> FALSE],
       [var |-> "HLAminstari8", hl |-> TRUE, jones |-> FALSE, phl |-> FALSE, deg1 |-> FALSE],
       [var |-> "HLAminstari8PartialHardLimit", hl |-> TRUE, jones |-> FALSE, phl |-> TRUE, deg1 |-> FALSE] >>

\* The row of a sequence of records whose field key is value.
RowOf(rows, key, value) == rows[CHOOSE i \in 1..Len(rows) : rows[i][key] = value]

HasRow(rows, key, value) == \E i \in 1..Len(rows) : rows[i][key] = value

\* The texts from_str is given: the text of every variant and two that are
\* none.
Texts == {Implementations[i].text : i \in 1..Len(Implementations)} \cup {"", "HLTanhi8"}

\* DecoderImplementation::from_str
from_str(s) ==
    IF HasRow(Implementations, "text", s)
    THEN [ok |-> TRUE, var |-> RowOf(Implementations, "text", s).var]
    ELSE [ok |-> FALSE, var |-> "invalid decoder implementation"]

\* new_decoder!: the decoder's schedule, its arithmetic and its state after
\* Decoder::new.
new_decoder(decoder, arith, hm) ==
    [schedule |-> decoder, arithmetic |-> arith,
     state |-> IF decoder = "flooding" THEN FloodingNew(hm) ELSE LayeredNew(hm)]

\* DecoderImplementation::build_decoder
build_decoder(var, hm) ==
    LET row == RowOf(Implementations, "var", var)
    IN  new_decoder(row.decoder, row.arith, hm)

FactoryInit ==
    /\ NoDecoder
    /\ NoBerTest
    /\ unit = [fn |-> "from_str"]
    /\ input \in {[s |-> s] : s \in Texts}
    /\ output = [ok |-> FALSE, var |-> "none"]

\* The text is parsed (as the command line does for its --decoder-type
\* argument).
FromStr ==
    /\ unit.fn = "from_str"
    /\ unit' = [fn |-> "parsed"]
    /\ output' = from_str(input.s)
    /\ UNCHANGED <<decoderVars, berVars, input>>

\* build_decoder is called on the parsed variant with a parity check matrix.
BuildDecoder ==
    /\ unit.fn = "parsed"
    /\ output.ok
    /\ \E hm \in CandidateMatrices :
          /\ unit' = [fn |-> "build_decoder", var |-> output.var, hm |-> hm]
          /\ output' = build_decoder(output.var, hm)
    /\ UNCHANGED <<decoderVars, berVars, input>>

FactoryNext == FromStr \/ BuildDecoder

SpecFactory == FactoryInit /\ [][FactoryNext]_vars

\* C16: the decoder build_decoder constructs for a variant has the arithmetic
\* the documentation of the variant names, with exactly the Jones, partial
\* hard-limit and degree-one clipping options that appear in the variant's
\* name, and the flooding schedule for a plain name and the horizontal
\* layered one for an HL name.
C16_BuildsNamedArithmetic ==
    unit.fn = "build_decoder" =>
        LET doc == RowOf(Documentation, "var", unit.var)
            name == RowOf(VariantNames, "var", unit.var)
            arith == RowOf(ArithmeticTypes, "name", output.arithmetic)
        IN  /\ output.arithmetic = doc.arith
            /\ arith.jones = name.jones /\ arith.phl = name.phl /\ arith.deg1 = name.deg1
            /\ output.schedule = IF name.hl THEN "horizontal_layered" ELSE "flooding"

\* ---------------------------------------------------------------- puncturer

\* The longest puncturing pattern and the longest buffer given to the
\* puncturer.
MaxPatternLen == 3

MaxBufferLen == 4

\* The elements of the buffers (codeword bits or LLRs); none is the 0.0 that
\* depuncture inserts.
BufferValues == {1, 2}

\* All sequences over a set of length at most n.
SeqsUpTo(S, n) == UNION {{Collect(f) : f \in [1..l -> S]} : l \in 0..n}

\* The patterns Puncturer::new accepts: the non-empty ones.
Patterns == SeqsUpTo(BOOLEAN, MaxPatternLen) \ {<<>>}

Buffers == SeqsUpTo(BufferValues, MaxBufferLen)

\* Puncturer::new
PuncturerNew(pattern) == [pattern |-> pattern, num_trues |-> num_trues(pattern)]

\* pattern.iter().enumerate().filter_map(..): the indices k (from 0) of the
\* true entries, in increasing order.
RECURSIVE TrueIndices(_, _)
TrueIndices(pattern, k) ==
    IF k >= Len(pattern) THEN <<>>
    ELSE (IF pattern[k + 1] THEN <<k>> ELSE <<>>) \o TrueIndices(pattern, k + 1)

\* The position j (from 0) of k in the enumeration of the true entries.
RankOf(trues, k) == (CHOOSE i \in 1..Len(trues) : trues[i] = k) - 1

\* Puncturer::puncture on the contents of the codeword.
PuncturerPuncture(p, codeword) ==
    LET pattern_len == Len(p.pattern)
        codeword_len == Len(codeword)
    IN  IF codeword_len % pattern_len # 0
        THEN [kind |-> "Err", value |-> <<>>]
        ELSE LET block_size == codeword_len \div pattern_len
                 output_size == block_size * p.num_trues
                 trues == TrueIndices(p.pattern, 0)
             IN  [kind |-> "Ok",
                  value |-> Collect([i \in 1..output_size |->
                      LET j == (i - 1) \div block_size
                          k == trues[j + 1]
                      IN  codeword[k * block_size + ((i - 1) % block_size) + 1]])]

\* Puncturer::depuncture on the contents of the LLRs.  With num_trues = 0 the
\* remainder llrs.len() % self.num_trues has a zero divisor, which panics.
PuncturerDepuncture(p, llrs) ==
    IF p.num_trues = 0
    THEN [kind |-> "panic", value |-> <<>>]
    ELSE IF Len(llrs) % p.num_trues # 0
    THEN [kind |-> "Err", value |-> <<>>]
    ELSE LET block_size == Len(llrs) \div p.num_trues
             output_size == Len(p.pattern) * block_size
             trues == TrueIndices(p.pattern, 0)
         IN  [kind |-> "Ok",
              value |-> Collect([i \in 1..output_size |->
                  LET k == (i - 1) \div block_size
                  IN  IF p.pattern[k + 1]
                      THEN llrs[RankOf(trues, k) * block_size + ((i - 1) % block_size) + 1]
                      ELSE 0])]

PuncturerInit ==
    /\ NoDecoder
    /\ NoBerTest
    /\ \E pattern \in Patterns : unit = [fn |-> "new", puncturer |-> PuncturerNew(pattern)]
    /\ input = <<>>
    /\ output = [kind |-> "none", value |-> <<>>]

\* puncture is called on a codeword.
Puncture ==
    /\ unit.fn = "new"
    /\ \E codeword \in Buffers :
          /\ unit' = [fn |-> "puncture", puncturer |-> unit.puncturer]
          /\ input' = codeword
          /\ output' = PuncturerPuncture(unit.puncturer, codeword)
    /\ UNCHANGED <<decoderVars, berVars>>

\* depuncture is called on some LLRs.
Depuncture ==
    /\ unit.fn = "new"
    /\ \E llrs \in Buffers :
          /\ unit' = [fn |-> "depuncture", puncturer |-> unit.puncturer]
          /\ input' = llrs
          /\ output' = PuncturerDepuncture(unit.puncturer, llrs)
    /\ UNCHANGED <<decoderVars, berVars>>

\* depuncture is called on the punctured codeword (the LLRs of a noiseless
\* channel); unit keeps the codeword.
DepuncturePunctured ==
    /\ unit.fn = "puncture"
    /\ output.kind = "Ok"
    /\ unit' = [fn |-> "depuncture(puncture)", puncturer |-> unit.puncturer,
                codeword |-> input]
    /\ input' = output.value
    /\ output' = PuncturerDepuncture(unit.puncturer, output.value)
    /\ UNCHANGED <<decoderVars, berVars>>

PuncturerNext == Puncture \/ Depuncture \/ DepuncturePunctured

SpecPuncturer == PuncturerInit /\ [][PuncturerNext]_vars

\* The block (from 0) element i (from 1) of a buffer of N elements is in, for
\* a pattern of P entries.
BlockOf(i, N, P) == (i - 1) \div (N \div P)

\* C17: for a non-empty pattern p of length P, whatever its number of true
\* entries, and a buffer x whose length N is a multiple of P,
\* depuncture(puncture(x)) succeeds and gives a buffer of length N equal to x
\* on the blocks where p is true and 0 on the blocks where p is false.
C17_DepuncturePuncture ==
    unit.fn = "depuncture(puncture)" =>
        LET x == unit.codeword
            p == unit.puncturer.pattern
        IN  /\ output.kind = "Ok"
            /\ Len(output.value) = Len(x)
            /\ \A i \in 1..Len(x) :
                  output.value[i] = IF p[BlockOf(i, Len(x), Len(p)) + 1] THEN x[i] ELSE 0

\* n is a multiple of d.
Divisible(n, d) == \E q \in 0..n : n = q * d

\* C18: for every non-empty pattern, puncture returns Err exactly when the
\* codeword length is not divisible by the pattern length, depuncture returns
\* Err exactly when the input length is not divisible by the number of true
\* entries, and neither panics.
C18_ErrIffNotDivisible ==
    /\ unit.fn = "puncture" =>
          /\ output.kind # "panic"
          /\ output.kind = "Err" <=> ~Divisible(Len(input), Len(unit.puncturer.pattern))
    /\ unit.fn \in {"depuncture", "depuncture(puncture)"} =>
          /\ output.kind # "panic"
          /\ output.kind = "Err" <=> ~Divisible(Len(input), unit.puncturer.num_trues)

\* -------------------------------------------------------------- interleaver

\* The largest number of columns of an interleaver and the longest buffer of
\* distinct elements given to it.
MaxColumns == 3

MaxCodewordLen == 8

\* Interleaver::new
InterleaverNew(columns, read_rows_backwards) ==
    [columns |-> columns, read_rows_backwards |-> read_rows_backwards]

\* The buffers given to the interleaver: 0, 1, .., n - 1 for each length n
\* (all elements distinct), and the short buffers over two values.
Codewords ==
    {Collect([i \in 1..n |-> i - 1]) : n \in 0..MaxCodewordLen} \cup Buffers

\* ArrayBase::into_shape((rows, cols)) of a one-dimensional array, in row-major
\* order.
into_shape(x, rows, cols) ==
    [rows |-> rows, cols |-> cols,
     elem |-> Collect([i \in 1..rows |-> Collect([j \in 1..cols |-> x[(i - 1) * cols + j]])])]

\* ArrayBase::t: the transposed view.
Transposed(a) ==
    [rows |-> a.cols, cols |-> a.rows,
     elem |-> Collect([j \in 1..a.cols |-> Collect([i \in 1..a.rows |-> a.elem[i][j]])])]

\* ArrayBase::invert_axis: Axis(0) reverses the order of the rows, Axis(1)
\* that of the elements of each row.
invert_axis(a, axis) ==
    IF axis = 0
    THEN [a EXCEPT !.elem = Collect([i \in 1..a.rows |-> a.elem[a.rows + 1 - i]])]
    ELSE [a EXCEPT !.elem = Collect([i \in 1..a.rows |->
                                Collect([j \in 1..a.cols |-> a.elem[i][a.cols + 1 - j]])])]

\* into_shape(len) of a two-dimensional array: its elements in row-major
\* order.
Flattened(a) ==
    Collect([n \in 1..(a.rows * a.cols) |->
        a.elem[((n - 1) \div a.cols) + 1][((n - 1) % a.cols) + 1]])

\* The assert_eq!(codeword.len() % self.columns, 0) of interleave and
\* deinterleave fails, or the remainder has a zero divisor.
InterleaverPanics(il, codeword) ==
    IF il.columns = 0 THEN TRUE ELSE Len(codeword) % il.columns # 0

\* interleave with the rows read backwards by inverting Axis(0) of the
\* transposed view instead of Axis(1).
interleave_axis0(il, codeword) ==
    IF InterleaverPanics(il, codeword) THEN [kind |-> "panic", value |-> <<>>]
    ELSE LET a2 == into_shape(codeword, il.columns, Len(codeword) \div il.columns)
             transpose == IF il.read_rows_backwards THEN invert_axis(Transposed(a2), 0)
                          ELSE Transposed(a2)
         IN  [kind |-> "Ok", value |-> Flattened(transpose)]

\* Interleaver::interleave
interleave(il, codeword) ==
    IF InterleaverPanics(il, codeword) THEN [kind |-> "panic", value |-> <<>>]
    ELSE LET a2 == into_shape(codeword, il.columns, Len(codeword) \div il.columns)
             transpose == IF il.read_rows_backwards THEN invert_axis(Transposed(a2), 1)
                          ELSE Transposed(a2)
         IN  [kind |-> "Ok", value |-> Flattened(transpose)]

\* deinterleave without the inversion of the axis.
deinterleave_forwards(il, codeword) ==
    IF InterleaverPanics(il, codeword) THEN [kind |-> "panic", value |-> <<>>]
    ELSE LET a2 == into_shape(codeword, Len(codeword) \div il.columns, il.columns)
         IN  [kind |-> "Ok", value |-> Flattened(Transposed(a2))]

\* Interleaver::deinterleave
deinterleave(il, codeword) ==
    IF InterleaverPanics(il, codeword) THEN [kind |-> "panic", value |-> <<>>]
    ELSE LET a2 == into_shape(codeword, Len(codeword) \div il.columns, il.columns)
             transpose == IF il.read_rows_backwards THEN invert_axis(Transposed(a2), 0)
                          ELSE Transposed(a2)
         IN  [kind |-> "Ok", value |-> Flattened(transpose)]

InterleaverInit ==
    /\ NoDecoder
    /\ NoBerTest
    /\ \E columns \in 0..MaxColumns, read_rows_backwards \in BOOLEAN :
          unit = [fn |-> "new", interleaver |-> InterleaverNew(columns, read_rows_backwards)]
    /\ input = <<>>
    /\ output = [kind |-> "none", value |-> <<>>]

\* interleave is called on a codeword.
Interleave ==
    /\ unit.fn = "new"
    /\ \E codeword \in Codewords :
          /\ unit' = [fn |-> "interleave", interleaver |-> unit.interleaver]
          /\ input' = codeword
          /\ output' = interleave(unit.interleaver, codeword)
    /\ UNCHANGED <<decoderVars, berVars>>

\* deinterleave is called on the interleaved codeword; unit keeps the
\* codeword.
DeinterleaveInterleaved ==
    /\ unit.fn = "interleave"
    /\ output.kind = "Ok"
    /\ unit' = [fn |-> "deinterleave(interleave)", interleaver |-> unit.interleaver,
                codeword |-> input]
    /\ input' = output.value
    /\ output' = deinterleave(unit.interleaver, output.value)
    /\ UNCHANGED <<decoderVars, berVars>>

InterleaverNext == Interleave \/ DeinterleaveInterleaved

SpecInterleaver == InterleaverInit /\ [][InterleaverNext]_vars

\* C19: for K > 0 columns, either value of the reversal flag and a buffer x
\* whose length is a multiple of K, deinterleave(interleave(x)) = x.
C19_DeinterleaveInterleave ==
    (/\ unit.fn = "deinterleave(interleave)"
     /\ unit.interleaver.columns > 0
     /\ Divisible(Len(unit.codeword), unit.interleaver.columns))
        => output.kind = "Ok" /\ output.value = unit.codeword

\* A round trip with three columns read backwards on six distinct elements,
\* which interleave has permuted.
C19_Witness ==
    /\ unit.fn = "deinterleave(interleave)"
    /\ unit.interleaver = [columns |-> 3, read_rows_backwards |-> TRUE]
    /\ unit.codeword = <<0, 1, 2, 3, 4, 5>>
    /\ input # unit.codeword
    /\ output.kind = "Ok"

\* C20: for K columns and a buffer x of length N = K*M, interleave gives out
\* with out[j*K + i] = x[i*M + j] for 0 <= i < K, 0 <= j < M, and with
\* out[j*K + i] = x[(K-1-i)*M + j] when the rows are read backwards; for K = 3
\* and x = [0,1,2,3,4,5] that is [0,2,4,1,3,5], and [4,2,0,5,3,1] backwards.
C20_InterleaveIndices ==
    (/\ unit.fn = "interleave"
     /\ unit.interleaver.columns > 0
     /\ Divisible(Len(input), unit.interleaver.columns))
        => LET K == unit.interleaver.columns
               M == Len(input) \div K
               backwards == unit.interleaver.read_rows_backwards
           IN  /\ output.kind = "Ok"
               /\ Len(output.value) = Len(input)
               /\ \A i \in 0..(K - 1) : \A j \in 0..(M - 1) :
                     output.value[j * K + i + 1]
                         = IF backwards THEN input[(K - 1 - i) * M + j + 1]
                           ELSE input[i * M + j + 1]
               /\ (K = 3 /\ input = <<0, 1, 2, 3, 4, 5>>) =>
                     output.value = IF backwards THEN <<4, 2, 0, 5, 3, 1>>
                                    ELSE <<0, 2, 4, 1, 3, 5>>

\* interleave with three columns read backwards on [0,1,2,3,4,5].
C20_Witness ==
    /\ unit.fn = "interleave"
    /\ unit.interleaver = [columns |-> 3, read_rows_backwards |-> TRUE]
    /\ input = <<0, 1, 2, 3, 4, 5>>
    /\ output.kind = "Ok"

\* ------------------------------------------------------------ Encoder::encode

\* The largest numbers of rows and of columns of the parity check matrices
\* given to Encoder::from_h.
MaxRows == 3

MaxCols == 4

\* The columns of the ones of row j of a 0/1 array, in increasing order.
RECURSIVE OnesFrom(_, _)
OnesFrom(row, k) ==
    IF k > Len(row) THEN <<>>
    ELSE (IF row[k] = 1 THEN <<k>> ELSE <<>>) \o OnesFrom(row, k + 1)

\* The SparseMatrix with the ones of a 0/1 array of ncols columns.
FromArray(array, ncols) ==
    FromRows(ncols, Collect([j \in 1..Len(array) |-> OnesFrom(array[j], 1)]))

\* Every parity check matrix with n rows and m columns.
AllMatrices(n, m) ==
    {FromArray(Collect([j \in 1..n |-> Collect([k \in 1..m |-> f[<<j, k>>]])]), m) :
        f \in [(1..n) \X (1..m) -> {0, 1}]}

\* The matrices given to Encoder::from_h: n - k rows and n columns, n >= n - k.
ParityCheckMatrices ==
    UNION {AllMatrices(n, m) : n \in 1..MaxRows, m \in 1..MaxCols} \
        {hm \in UNION {AllMatrices(n, m) : n \in 1..MaxRows, m \in 1..MaxCols} :
            num_rows(hm) > num_cols(hm)}

EncoderInit ==
    /\ NoDecoder
    /\ NoBerTest
    /\ \E hm \in ParityCheckMatrices : unit = [fn |-> "from_h", hm |-> hm]
    /\ input = <<>>
    /\ output = <<>>

\* Encoder::from_h returned Ok and encode is called on a message of length
\* m - n.
Encode ==
    /\ unit.fn = "from_h"
    /\ LET enc == from_h(unit.hm)
       IN  /\ enc.ok
           /\ \E message \in [1..(num_cols(unit.hm) - num_rows(unit.hm)) -> {0, 1}] :
                 /\ unit' = [fn |-> "encode", hm |-> unit.hm, kind |-> enc.kind]
                 /\ input' = Collect(message)
                 /\ output' = encode(enc, Collect(message))
    /\ UNCHANGED <<decoderVars, berVars>>

EncoderNext == Encode

SpecEncoder == EncoderInit /\ [][EncoderNext]_vars

\* C21: for every parity check matrix H (R rows, C columns) for which from_h
\* returns Ok and every message m of length C - R, encode(m) has length C,
\* starts with m and satisfies every parity check of H, with the staircase
\* encoder and with the dense generator alike.
C21_EncodeSystematicCodeword ==
    unit.fn = "encode" =>
        /\ Len(output) = num_cols(unit.hm)
        /\ SubSeq(output, 1, Len(input)) = input
        /\ SatisfiesH(unit.hm, output)

\* A staircase encoder with three parity bits has encoded a non-zero message
\* into a word with a non-zero parity part.
C21_Witness ==
    /\ unit.fn = "encode"
    /\ unit.kind = "DenseGenerator"
    /\ num_rows(unit.hm) = MaxRows
    /\ num_cols(unit.hm) = MaxCols
    /\ input = <<1>>
    /\ output = <<1, 1, 0, 1>>

\* ------------------------------------------------------ parity_to_systematic

\* The dense GF(2) array of a SparseMatrix (Array2::zeros, then a one for each
\* pair of iter_all).
DenseOf(hm) ==
    Collect([j \in 1..num_rows(hm) |->
        Collect([k \in 1..num_cols(hm) |-> IF Contains(hm, j, k) THEN 1 ELSE 0])])

\* row_echelon_form, "swap rows s and k": on the columns from j on.
EchelonSwap(array, s, k, j) ==
    [array EXCEPT
        ![s] = Collect([t \in 1..Len(array[s]) |-> IF t >= j THEN array[k][t] ELSE array[s][t]]),
        ![k] = Collect([t \in 1..Len(array[k]) |-> IF t >= j THEN array[s][t] ELSE array[k][t]])]

\* row_echelon_form, the loop "for u in j..m": row t minus y times row k over
\* x, on the columns from j on (in GF(2) x = y = 1).
EchelonSubtract(array, t, k, j) ==
    [array EXCEPT ![t] =
        Collect([u \in 1..Len(array[t]) |->
                    IF u >= j THEN Gf2Add(array[t][u], array[k][u]) ELSE array[t][u]])]

\* row_echelon_form, the loop "for t in (k + 1)..n" from row t on: zeros
\* below row k in column j.
RECURSIVE EchelonClear(_, _, _, _, _)
EchelonClear(array, j, k, t, n) ==
    IF t > n THEN array
    ELSE EchelonClear(IF array[t][j] # 0 THEN EchelonSubtract(array, t, k, j) ELSE array,
                      j, k, t + 1, n)

\* linalg::row_echelon_form from column j and row k on (both from 1), on an
\* array of n rows and m columns.
RECURSIVE row_echelon_from(_, _, _, _, _)
row_echelon_from(array, n, m, j, k) ==
    IF ~(j <= m /\ k <= n) THEN array
    ELSE LET found == {s \in k..n : array[s][j] # 0}
         IN  IF found = {} THEN row_echelon_from(array, n, m, j + 1, k)
             ELSE LET s == CHOOSE s \in found : \A s2 \in found : s <= s2
                      swapped == IF s # k THEN EchelonSwap(array, s, k, j) ELSE array
                      cleared == EchelonClear(swapped, j, k, k + 1, n)
                  IN  IF Computed(cleared)
                      THEN row_echelon_from(cleared, n, m, j + 1, k + 1)
                      ELSE array

\* linalg::row_echelon_form
row_echelon_form(array, n, m) == row_echelon_from(array, n, m, 1, 1)

\* "for &u in h.iter_col(s) { h_new.insert(u, col) }": column s of hm is
\* written to column col of h_new.
RECURSIVE CopyColumn(_, _, _, _)
CopyColumn(h_new, us, col, i) ==
    IF i > Len(us) THEN h_new
    ELSE CopyColumn(Insert(h_new, us[i], col), us, col, i + 1)

\* parity_to_systematic, the loop "for s in j0..m" of row j (s and j from 1;
\* k counts the columns written at the write point): a column that does not
\* go down is placed at the write point, the first one that goes down is
\* placed at column m - n + j and ends the loop.
RECURSIVE ScanRow(_, _, _, _, _)
ScanRow(a, hm, st, j, s) ==
    LET n == num_rows(hm)
        m == num_cols(hm)
    IN  IF s > m THEN st
        ELSE IF a[j][s] = 0
        THEN ScanRow(a, hm,
                     [st EXCEPT !.h_new = CopyColumn(st.h_new, iter_col(hm, s), st.k + 1, 1),
                                !.k = st.k + 1],
                     j, s + 1)
        ELSE [st EXCEPT !.h_new = CopyColumn(st.h_new, iter_col(hm, s), m - n + j, 1),
                        !.found = TRUE,
                        !.j0 = s + 1]

\* parity_to_systematic, the loop "for j in 0..n" from row j on, with its two
\* assertions.
RECURSIVE PlaceRows(_, _, _, _)
PlaceRows(a, hm, st, j) ==
    LET n == num_rows(hm)
        m == num_cols(hm)
    IN  IF j > n THEN st
        ELSE IF ~(st.k < m - n) THEN [st EXCEPT !.panic = TRUE]
        ELSE LET scanned == ScanRow(a, hm, [st EXCEPT !.found = FALSE], j, st.j0)
             IN  IF ~scanned.found THEN [scanned EXCEPT !.panic = TRUE]
                 ELSE PlaceRows(a, hm, scanned, j + 1)

\* parity_to_systematic, the last loop "for j in j0..m" from column j on.
RECURSIVE PlaceRemaining(_, _, _)
PlaceRemaining(hm, st, j) ==
    LET n == num_rows(hm)
        m == num_cols(hm)
    IN  IF j > m THEN st
        ELSE IF ~(st.k < m - n) THEN [st EXCEPT !.panic = TRUE]
        ELSE PlaceRemaining(hm,
                 [st EXCEPT !.h_new = CopyColumn(st.h_new, iter_col(hm, j), st.k + 1, 1),
                            !.k = st.k + 1],
                 j + 1)

\* systematic::parity_to_systematic: Ok(h_new), Err or a panic (a failed
\* assertion).
parity_to_systematic(hm) ==
    LET n == num_rows(hm)
        m == num_cols(hm)
    IN  IF n > m THEN [kind |-> "Err", error |-> "ParityOverdetermined", value |-> <<>>]
        ELSE LET a == row_echelon_form(DenseOf(hm), n, m)
             IN  IF ~(\E j \in 1..m : a[n][j] # 0)
                 THEN [kind |-> "Err", error |-> "NotFullRank", value |-> <<>>]
                 ELSE LET rows == PlaceRows(a, hm,
                                      [k |-> 0, h_new |-> SparseNew(n, m), j0 |-> 1,
                                       found |-> FALSE, panic |-> FALSE], 1)
                          last == IF rows.panic THEN rows
                                  ELSE PlaceRemaining(hm, rows, rows.j0)
                      IN  IF last.panic
                          THEN [kind |-> "panic", error |-> "none", value |-> <<>>]
                          ELSE [kind |-> "Ok", error |-> "none", value |-> last.h_new]

SystematicInit ==
    /\ NoDecoder
    /\ NoBerTest
    /\ \E hm \in UNION {AllMatrices(n, m) : n \in 1..MaxRows, m \in 1..MaxCols} :
          unit = [fn |-> "new", hm |-> hm]
    /\ input = <<>>
    /\ output = [kind |-> "none", error |-> "none", value |-> <<>>]

\* parity_to_systematic is called on the matrix.
ParityToSystematic ==
    /\ unit.fn = "new"
    /\ unit' = [fn |-> "parity_to_systematic", hm |-> unit.hm]
    /\ output' = parity_to_systematic(unit.hm)
    /\ UNCHANGED <<decoderVars, berVars, input>>

SystematicNext == ParityToSystematic

SpecSystematic == SystematicInit /\ [][SystematicNext]_vars

\* The sum over GF(2) of the rows js of a matrix, restricted to the columns
\* ks, is zero.
RowsSumToZero(hm, js, ks) ==
    \A k \in ks : Cardinality({j \in js : Contains(hm, j, k)}) % 2 = 0

\* The rows of the matrix restricted to the columns ks are linearly
\* independent over GF(2).
IndependentRows(hm, ks) ==
    \A js \in SUBSET (1..num_rows(hm)) : js # {} => ~RowsSumToZero(hm, js, ks)

\* Column k of a matrix as the set of its rows.
ColumnSet(hm, k) == {j \in 1..num_rows(hm) : Contains(hm, j, k)}

\* The columns of g are a permutation of the columns of hm.
ColumnsPermuted(hm, g) ==
    /\ num_rows(g) = num_rows(hm)
    /\ num_cols(g) = num_cols(hm)
    /\ \A k \in 1..num_cols(hm) :
          Cardinality({l \in 1..num_cols(g) : ColumnSet(g, l) = ColumnSet(hm, k)})
              = Cardinality({l \in 1..num_cols(hm) : ColumnSet(hm, l) = ColumnSet(hm, k)})

\* C22: for every parity check matrix with at least one row, no more rows
\* than columns and full row rank over GF(2), parity_to_systematic returns Ok
\* with a matrix whose columns are a permutation of those of h and whose last
\* num_rows columns form an invertible square matrix; it does not panic.
C22_SystematicOfFullRank ==
    (/\ unit.fn = "parity_to_systematic"
     /\ num_rows(unit.hm) <= num_cols(unit.hm)
     /\ IndependentRows(unit.hm, 1..num_cols(unit.hm)))
        => /\ output.kind = "Ok"
           /\ ColumnsPermuted(unit.hm, output.value)
           /\ IndependentRows(output.value,
                              (num_cols(unit.hm) - num_rows(unit.hm) + 1)..num_cols(unit.hm))

\* ------------------------------------------------- SparseMatrix operations

SparseRows == 2

SparseCols == 2

MaxIndexListLen == 2

\* Vec::retain(|&e| e != x)
Retain(s, x) == SelectSeq(s, LAMBDA e : e # x)

\* The elements of a sequence.
Elements(s) == {s[i] : i \in 1..Len(s)}

\* SparseMatrix::remove
Remove(m, row, col) ==
    [rows |-> [m.rows EXCEPT ![row] = Retain(@, col)],
     cols |-> [m.cols EXCEPT ![col] = Retain(@, row)]]

\* SparseMatrix::toggle
Toggle(m, row, col) ==
    IF Contains(m, row, col) THEN Remove(m, row, col) ELSE Insert(m, row, col)

\* SparseMatrix::insert_col: insert for each row of the iterator in turn.
RECURSIVE InsertCol(_, _, _)
InsertCol(m, col, rs) ==
    IF rs = <<>> THEN m ELSE InsertCol(Insert(m, Head(rs), col), col, Tail(rs))

\* SparseMatrix::clear_row: the row is retained out of each column it lists,
\* then emptied.
ClearRow(m, row) ==
    [rows |-> [m.rows EXCEPT ![row] = <<>>],
     cols |-> Collect([k \in 1..Len(m.cols) |->
                 IF k \in Elements(m.rows[row]) THEN Retain(m.cols[k], row) ELSE m.cols[k]])]

\* SparseMatrix::clear_col
ClearCol(m, col) ==
    [rows |-> Collect([j \in 1..Len(m.rows) |->
                 IF j \in Elements(m.cols[col]) THEN Retain(m.rows[j], col) ELSE m.rows[j]]),
     cols |-> [m.cols EXCEPT ![col] = <<>>]]

\* SparseMatrix::set_row
SetRow(m, row, cs) == InsertRow(ClearRow(m, row), row, cs)

\* SparseMatrix::set_col
SetCol(m, col, rs) == InsertCol(ClearCol(m, col), col, rs)

\* The operation fn of SparseMatrix with its arguments.
Apply(m, fn, row, col, list) ==
    CASE fn = "insert" -> Insert(m, row, col)
      [] fn = "remove" -> Remove(m, row, col)
      [] fn = "toggle" -> Toggle(m, row, col)
      [] fn = "insert_row" -> InsertRow(m, row, list)
      [] fn = "insert_col" -> InsertCol(m, col, list)
      [] fn = "clear_row" -> ClearRow(m, row)
      [] fn = "clear_col" -> ClearCol(m, col)
      [] fn = "set_row" -> SetRow(m, row, list)
      [] fn = "set_col" -> SetCol(m, col, list)

\* unit is the last call, input the matrix before it and output the matrix
\* after it.
SparseInit ==
    /\ NoDecoder
    /\ NoBerTest
    /\ unit = [fn |-> "new", row |-> 0, col |-> 0, list |-> <<>>]
    /\ input = SparseNew(SparseRows, SparseCols)
    /\ output = SparseNew(SparseRows, SparseCols)

\* insert, remove or toggle of one entry.
EntryCall ==
    \E fn \in {"insert", "remove", "toggle"}, row \in 1..SparseRows, col \in 1..SparseCols :
        /\ unit' = [fn |-> fn, row |-> row, col |-> col, list |-> <<>>]
        /\ input' = output
        /\ output' = Apply(output, fn, row, col, <<>>)
        /\ UNCHANGED <<decoderVars, berVars>>

\* insert_row, clear_row or set_row; the iterator may repeat an index.
RowCall ==
    \E fn \in {"insert_row", "clear_row", "set_row"}, row \in 1..SparseRows,
       list \in SeqsUpTo(1..SparseCols, MaxIndexListLen) :
        /\ fn = "clear_row" => list = <<>>
        /\ unit' = [fn |-> fn, row |-> row, col |-> 0, list |-> list]
        /\ input' = output
        /\ output' = Apply(output, fn, row, 0, list)
        /\ UNCHANGED <<decoderVars, berVars>>

\* insert_col, clear_col or set_col.
ColCall ==
    \E fn \in {"insert_col", "clear_col", "set_col"}, col \in 1..SparseCols,
       list \in SeqsUpTo(1..SparseRows, MaxIndexListLen) :
        /\ fn = "clear_col" => list = <<>>
        /\ unit' = [fn |-> fn, row |-> 0, col |-> col, list |-> list]
        /\ input' = output
        /\ output' = Apply(output, fn, 0, col, list)
        /\ UNCHANGED <<decoderVars, berVars>>

SparseNext == EntryCall \/ RowCall \/ ColCall

SpecSparse == SparseInit /\ [][SparseNext]_vars

\* The row view and the column view list the same ones.
ViewsAgree(m) ==
    \A j \in 1..Len(m.rows), k \in 1..Len(m.cols) :
        (k \in Elements(m.rows[j])) <=> (j \in Elements(m.cols[k]))

\* No row and no column lists an index twice.
NoIndexTwice(m) ==
    /\ \A j \in 1..Len(m.rows) : Cardinality(Elements(m.rows[j])) = Len(m.rows[j])
    /\ \A k \in 1..Len(m.cols) : Cardinality(Elements(m.cols[k])) = Len(m.cols[k])

\* C23: after any sequence of insert, remove, toggle, insert_row, insert_col,
\* clear_row, clear_col, set_row and set_col the row view and the column view
\* of the matrix list the same ones and no index is listed twice; an insert
\* of a one that is already present leaves the matrix as it was.
C23_ViewsAgreeNoDuplicates ==
    /\ ViewsAgree(output)
    /\ NoIndexTwice(output)
    /\ (unit.fn = "insert" /\ Contains(input, unit.row, unit.col)) => output = input

C23_Witness ==
    /\ unit.fn = "set_col"
    /\ unit.list = <<2, 2>>
    /\ Len(input.cols[unit.col]) = 2
    /\ output.cols[unit.col] = <<2>>
    /\ output.rows[1] # <<>>

\* -------------------------------------------------------------- local girth

GirthRows == 3

GirthCols == 3

\* usize::MAX as the bound of girth_at_node: it is only compared with path
\* lengths, which are at most the number of nodes, so the largest integer of
\* the model stands for it.
UsizeMax == 2147483647

\* Option<usize>
None == [some |-> FALSE, value |-> 0]

Some(n) == [some |-> TRUE, value |-> n]

\* Node::Row(n), Node::Col(n)
NodeRow(n) == <<"Row", n>>

NodeCol(n) == <<"Col", n>>

Nodes(hm) == {NodeRow(n) : n \in 1..num_rows(hm)} \cup {NodeCol(n) : n \in 1..num_cols(hm)}

\* Node::iter: the neighbours of a node in the order of iter_row / iter_col.
NodeIter(hm, node) ==
    IF node[1] = "Row"
    THEN Collect([i \in 1..Len(iter_row(hm, node[2])) |-> NodeCol(iter_row(hm, node[2])[i])])
    ELSE Collect([i \in 1..Len(iter_col(hm, node[2])) |-> NodeRow(iter_col(hm, node[2])[i])])

\* PathHead::iter: the heads one step further, the parent left out.
PathHeadIter(hm, head) ==
    LET kept == SelectSeq(NodeIter(hm, head.node),
                          LAMBDA x : ~(head.parent.some /\ x = head.parent.value))
    IN  Collect([i \in 1..Len(kept) |->
            [node |-> kept[i], parent |-> [some |-> TRUE, value |-> head.node],
             path_length |-> head.path_length + 1]])

\* BFSResults::get_node_mut
GetNode(res, node) ==
    IF node[1] = "Row" THEN res.row_nodes_distance[node[2]]
    ELSE res.col_nodes_distance[node[2]]

SetNode(res, node, dist) ==
    IF node[1] = "Row" THEN [res EXCEPT !.row_nodes_distance[node[2]] = dist]
    ELSE [res EXCEPT !.col_nodes_distance[node[2]] = dist]

\* BFSContext::new
BFSContextNew(hm, node) ==
    [results |-> SetNode([row_nodes_distance |-> Collect([n \in 1..num_rows(hm) |-> None]),
                          col_nodes_distance |-> Collect([n \in 1..num_cols(hm) |-> None])],
                         node, Some(0)),
     to_visit |-> <<[node |-> node, parent |-> [some |-> FALSE, value |-> <<>>],
                     path_length |-> 0]>>]

RECURSIVE LocalGirthLoop(_, _, _)
RECURSIVE LocalGirthHeads(_, _, _, _)
\* BFSContext::local_girth, the loop "for next_head in head.iter(self.h)" over
\* the heads that are left.
LocalGirthHeads(hm, ctx, heads, max) ==
    IF heads = <<>> THEN LocalGirthLoop(hm, ctx, max)
    ELSE LET next_head == Head(heads)
             next_dist == GetNode(ctx.results, next_head.node)
         IN  IF next_dist.some
             THEN LET total == next_dist.value + next_head.path_length
                  IN  IF total <= max THEN Some(total) ELSE None
             ELSE LocalGirthHeads(hm,
                      [results |-> SetNode(ctx.results, next_head.node,
                                           Some(next_head.path_length)),
                       to_visit |-> IF next_head.path_length < max
                                    THEN Append(ctx.to_visit, next_head)
                                    ELSE ctx.to_visit],
                      Tail(heads), max)

\* BFSContext::local_girth, the loop "while let Some(head) = pop_front()".
LocalGirthLoop(hm, ctx, max) ==
    IF ctx.to_visit = <<>> THEN None
    ELSE LocalGirthHeads(hm, [ctx EXCEPT !.to_visit = Tail(@)],
                         PathHeadIter(hm, Head(ctx.to_visit)), max)

\* BFSContext::local_girth
local_girth(hm, node, max) == LocalGirthLoop(hm, BFSContextNew(hm, node), max)

\* SparseMatrix::girth_at_node_with_max
girth_at_node_with_max(hm, node, max) == local_girth(hm, node, max)

\* SparseMatrix::girth_at_node
girth_at_node(hm, node) == girth_at_node_with_max(hm, node, UsizeMax)

GirthInit ==
    /\ NoDecoder
    /\ NoBerTest
    /\ \E hm \in AllMatrices(GirthRows, GirthCols) : unit = [fn |-> "new", hm |-> hm]
    /\ input = <<>>
    /\ output = None

\* girth_at_node is called on a row or column node of the matrix.
GirthAtNode ==
    /\ unit.fn = "new"
    /\ \E node \in Nodes(unit.hm) :
          /\ unit' = [fn |-> "girth_at_node", hm |-> unit.hm]
          /\ input' = node
          /\ output' = girth_at_node(unit.hm, node)
    /\ UNCHANGED <<decoderVars, berVars>>

GirthNext == GirthAtNode

SpecGirth == GirthInit /\ [][GirthNext]_vars

\* Two nodes of the Tanner graph are joined by an edge.
Adjacent(hm, x, y) ==
    \/ x[1] = "Row" /\ y[1] = "Col" /\ Contains(hm, x[2], y[2])
    \/ x[1] = "Col" /\ y[1] = "Row" /\ Contains(hm, y[2], x[2])

\* The lengths of the cycles through root that continue the simple path of
\* len edges from root to cur through the nodes of visited.
RECURSIVE CycleLengths(_, _, _, _, _)
CycleLengths(hm, root, cur, visited, len) ==
    UNION {IF nx = root THEN (IF len + 1 > 2 THEN {len + 1} ELSE {})
           ELSE IF nx \in visited THEN {}
           ELSE CycleLengths(hm, root, nx, visited \cup {nx}, len + 1) :
           nx \in {y \in Nodes(hm) : Adjacent(hm, cur, y)}}

\* The lengths of the cycles of the Tanner graph that contain the node.
CyclesThrough(hm, node) == CycleLengths(hm, node, node, {node}, 0)

\* C24: girth_at_node returns Some(L) with L the minimum length of the cycles
\* of the Tanner graph that contain the node, and None if no cycle contains
\* the node, also when the node is connected to a cycle that does not pass
\* through it.
C24_GirthAtNode ==
    unit.fn = "girth_at_node" =>
        LET lengths == CyclesThrough(unit.hm, input)
        IN  IF lengths = {} THEN output = None
            ELSE /\ output.some
                 /\ output.value \in lengths
                 /\ \A l \in lengths : output.value <= l

\* ------------------------------------------------ MacKay-Neal construction

MnRows == 3

MnCols == 3

MaxTrials == 2

\* The configurations of the construction: Config with nrows = MnRows and
\* ncols = MnCols.
Configs ==
    [wr : {1, 2, 3}, wc : {1, 2}, backtrack_cols : {0, 2}, backtrack_trials : {0, 1},
     min_girth : {None, Some(1), Some(5), Some(7)}, girth_trials : {0, MaxTrials},
     fill_policy : {"Random", "Uniform"}]

\* MacKayNeal::new
MacKayNealNew(conf) ==
    [wr |-> conf.wr, wc |-> conf.wc, h |-> SparseNew(MnRows, MnCols),
     backtrack_cols |-> conf.backtrack_cols, backtrack_trials |-> conf.backtrack_trials,
     min_girth |-> conf.min_girth, girth_trials |-> conf.girth_trials,
     fill_policy |-> conf.fill_policy, current_col |-> 0]

\* SparseMatrix::row_weight
row_weight(m, row) == Len(m.rows[row])

\* The vectors choose_multiple(rng, amount) can return on the elements of S,
\* over all states of the generator: amount distinct elements, or all of S
\* when it has fewer.
choose_multiple(S, amount) ==
    LET k == IF Cardinality(S) < amount THEN Cardinality(S) ELSE amount
    IN  {Collect(f) : f \in {g \in [1..k -> S] : \A i, j \in 1..k : g[i] = g[j] => i = j}}

\* MacKayNeal::select_rows: the vectors it can return; the empty set stands
\* for Err(NoAvailRows).
select_rows(mk) ==
    LET avail_rows == {r \in 1..num_rows(mk.h) : row_weight(mk.h, r) < mk.wr}
    IN  IF Cardinality(avail_rows) < mk.wc THEN {}
        ELSE IF mk.fill_policy = "Random" THEN choose_multiple(avail_rows, mk.wc)
        ELSE LET sorted == {s \in choose_multiple(avail_rows, Cardinality(avail_rows)) :
                               \A i \in 1..(Len(s) - 1) :
                                   row_weight(mk.h, s[i]) <= row_weight(mk.h, s[i + 1])}
             IN  UNION {LET threshold == row_weight(mk.h, s[mk.wc])
                            sure == SelectSeq(s, LAMBDA r : row_weight(mk.h, r) < threshold)
                            equal == {r \in avail_rows : row_weight(mk.h, r) = threshold}
                        IN  {sure \o additional :
                                additional \in choose_multiple(equal, mk.wc - Len(sure))} :
                        s \in sorted}

\* A try_insert_column that does not look at the girth.
try_insert_column_unchecked(mk, rows) ==
    [mk |-> [mk EXCEPT !.h = InsertCol(mk.h, mk.current_col + 1, rows)], result |-> "Ok"]

\* MacKayNeal::try_insert_column once select_rows has returned rows.
try_insert_column(mk, rows) ==
    LET inserted == InsertCol(mk.h, mk.current_col + 1, rows)
    IN  IF /\ mk.min_girth.some
           /\ girth_at_node_with_max(inserted, NodeCol(mk.current_col + 1),
                                     mk.min_girth.value - 1).some
        THEN [mk |-> [mk EXCEPT !.h = ClearCol(inserted, mk.current_col + 1)],
              result |-> "GirthTooSmall"]
        ELSE [mk |-> [mk EXCEPT !.h = inserted], result |-> "Ok"]

\* The loop "for col in a..self.current_col" of backtrack, from column col on
\* (columns from 1).
RECURSIVE ClearCols(_, _, _)
ClearCols(m, col, last) ==
    IF col > last THEN m ELSE ClearCols(ClearCol(m, col), col + 1, last)

\* MacKayNeal::backtrack; ok is FALSE for Err(NoMoreBacktrack).
backtrack(mk) ==
    IF mk.backtrack_trials = 0 THEN [mk |-> mk, ok |-> FALSE]
    ELSE LET b == IF mk.current_col < mk.backtrack_cols THEN mk.current_col
                  ELSE mk.backtrack_cols
             a == mk.current_col - b
         IN  [mk |-> [mk EXCEPT !.backtrack_trials = @ - 1,
                                !.h = ClearCols(mk.h, a + 1, mk.current_col),
                                !.current_col = a],
              ok |-> TRUE]

\* MacKayNeal::retry_girth; ok is FALSE for Err(NoMoreTrials).
retry_girth(mk) ==
    IF mk.girth_trials = 0 THEN [mk |-> mk, ok |-> FALSE]
    ELSE [mk |-> [mk EXCEPT !.girth_trials = @ - 1], ok |-> TRUE]

\* Config::run up to the first pass of the loop of MacKayNeal::run.
MacKayNealInit ==
    /\ NoDecoder
    /\ NoBerTest
    /\ \E conf \in Configs : unit = [fn |-> "run", step |-> "new", mk |-> MacKayNealNew(conf)]
    /\ input = <<>>
    /\ output = [kind |-> "none", error |-> "none"]

\* A pass of the loop of run in which try_insert_column returns Ok.
ColumnAccepted ==
    /\ unit.fn = "run"
    /\ unit.mk.current_col < num_cols(unit.mk.h)
    /\ \E rows \in select_rows(unit.mk) :
          LET try == try_insert_column(unit.mk, rows)
          IN  /\ try.result = "Ok"
              /\ unit' = [fn |-> "run", step |-> "accepted",
                          mk |-> [try.mk EXCEPT !.current_col = @ + 1]]
              /\ input' = rows
    /\ UNCHANGED <<decoderVars, berVars, output>>

\* A pass in which try_insert_column returns Err(GirthTooSmall): retry_girth,
\* whose error ends run.
ColumnRejected ==
    /\ unit.fn = "run"
    /\ unit.mk.current_col < num_cols(unit.mk.h)
    /\ \E rows \in select_rows(unit.mk) :
          LET try == try_insert_column(unit.mk, rows)
              retry == retry_girth(try.mk)
          IN  /\ try.result = "GirthTooSmall"
              /\ unit' = [fn |-> IF retry.ok THEN "run" ELSE "returned", step |-> "rejected",
                          mk |-> retry.mk]
              /\ input' = rows
              /\ output' = IF retry.ok THEN output
                           ELSE [kind |-> "Err", error |-> "NoMoreTrials"]
    /\ UNCHANGED <<decoderVars, berVars>>

\* A pass in which select_rows returns Err(NoAvailRows): backtrack, whose
\* error ends run.
Backtrack ==
    /\ unit.fn = "run"
    /\ unit.mk.current_col < num_cols(unit.mk.h)
    /\ select_rows(unit.mk) = {}
    /\ LET back == backtrack(unit.mk)
       IN  /\ unit' = [fn |-> IF back.ok THEN "run" ELSE "returned", step |-> "backtrack",
                       mk |-> back.mk]
           /\ output' = IF back.ok THEN output
                        ELSE [kind |-> "Err", error |-> "NoMoreBacktrack"]
    /\ input' = <<>>
    /\ UNCHANGED <<decoderVars, berVars>>

\* The loop of run ends: Ok(self.h).
RunReturnsOk ==
    /\ unit.fn = "run"
    /\ ~(unit.mk.current_col < num_cols(unit.mk.h))
    /\ unit' = [unit EXCEPT !.fn = "returned", !.step = "ok"]
    /\ output' = [kind |-> "Ok", error |-> "none"]
    /\ UNCHANGED <<decoderVars, berVars, input>>

MacKayNealNext == ColumnAccepted \/ ColumnRejected \/ Backtrack \/ RunReturnsOk

SpecMacKayNeal == MacKayNealInit /\ [][MacKayNealNext]_vars

\* The lengths of the cycles of the Tanner graph of the matrix.
AllCycleLengths(hm) == UNION {CyclesThrough(hm, node) : node \in Nodes(hm)}

\* C25: with min_girth = Some(g), g >= 1, the partial matrix after every
\* accepted column and after every backtrack step, and the matrix that run
\* returns as Ok, have no cycle of length less than g, for every choice of
\* the generator, fill policy and backtracking configuration.
C25_MinGirthKept ==
    (unit.mk.min_girth.some /\ unit.mk.min_girth.value >= 1)
        => \A l \in AllCycleLengths(unit.mk.h) : l >= unit.mk.min_girth.value

C25_Witness ==
    /\ output.kind = "Ok"
    /\ unit.mk.min_girth = Some(5)
    /\ unit.mk.wc = 2
    /\ unit.mk.girth_trials < MaxTrials
    /\ 6 \in AllCycleLengths(unit.mk.h)

\* ------------------------------------------- flooding decoder with Phif64

\* f64 LLRs and messages are counted in units of 0.0001.  The magnitude of the
\* LLRs of to_llrs: 1.3863.
LlrMagnitude == 13863

MaxPhiCalls == 6

\* Phif64::phi(x) = -ln(tanh(x / 2)) at the arguments a first iteration on
\* LLRs of this magnitude reaches, rounded to the unit: phi(1.3863) = 0.5108
\* and phi(1.0216) = 0.7538.  x.max(1e-30) changes the argument 0 only.
PhiValues == (13863 :> 5108) @@ (10216 :> 7538)

phi(x) == PhiValues[x]

\* Phif64::send_check_messages, the first loop: sum of the phi of the
\* magnitudes.
PhiSum(var_messages) ==
    SumSeq(Collect([i \in 1..Len(var_messages) |-> phi(Abs(var_messages[i].value))]))

\* Phif64::send_check_messages, the first loop: the parity of the number of
\* negative messages.
PhiSign(var_messages) ==
    Cardinality({i \in 1..Len(var_messages) : var_messages[i].value < 0}) % 2

\* A send_check_messages that does not exclude the sign of the destination.
phi_send_check_messages_total_sign(var_messages) ==
    Collect([i \in 1..Len(var_messages) |->
        LET y == phi(PhiSum(var_messages) - phi(Abs(var_messages[i].value)))
        IN  [dest |-> var_messages[i].source,
             value |-> IF PhiSign(var_messages) = 0 THEN y ELSE -y]])

\* Phif64::send_check_messages: the messages sent, in order.
phi_send_check_messages(var_messages) ==
    Collect([i \in 1..Len(var_messages) |->
        LET x == var_messages[i].value
            y == phi(PhiSum(var_messages) - phi(Abs(x)))
            s == IF x < 0 THEN (PhiSign(var_messages) + 1) % 2 ELSE PhiSign(var_messages)
        IN  [dest |-> var_messages[i].source, value |-> IF s = 0 THEN y ELSE -y]])

\* send_var_messages_no_clip: the new LLR and the messages sent.
send_var_messages_no_clip(input_llr, cmsgs) ==
    LET llr == input_llr + SumSeq(Collect([i \in 1..Len(cmsgs) |-> cmsgs[i].value]))
    IN  [llr |-> llr,
         sent |-> Collect([i \in 1..Len(cmsgs) |->
                     [dest |-> cmsgs[i].source, value |-> llr - cmsgs[i].value]])]

\* flooding::Decoder::initialize with Phif64 (input_llr_quantize and
\* llr_to_var_message are the identity).
RECURSIVE PhiInitSend(_, _, _, _)
PhiInitSend(vmsgs, hm, in_llrs, v) ==
    IF v > num_cols(hm) THEN vmsgs
    ELSE LET sent == SendAll(vmsgs, v,
                         Collect([i \in 1..Len(iter_col(hm, v)) |->
                             [dest |-> iter_col(hm, v)[i], value |-> in_llrs[v]]]))
         IN  IF Computed(sent) THEN PhiInitSend(sent, hm, in_llrs, v + 1) ELSE vmsgs

PhiInitialize(d, hm, raw) ==
    [d EXCEPT !.input_llrs = raw,
              !.variable_messages = PhiInitSend(d.variable_messages, hm, raw, 1)]

\* flooding::Decoder::process_check_nodes with Phif64, from check node c on.
RECURSIVE PhiCheckNodes(_, _, _)
PhiCheckNodes(cmsgs, vmsgs, c) ==
    IF c > Len(vmsgs) THEN cmsgs
    ELSE LET sent == SendAll(cmsgs, c, phi_send_check_messages(vmsgs[c]))
         IN  IF Computed(sent) THEN PhiCheckNodes(sent, vmsgs, c + 1) ELSE cmsgs

\* flooding::Decoder::process_variable_nodes with Phif64, from variable node
\* v on.
RECURSIVE PhiVariableNodes(_, _)
PhiVariableNodes(d, v) ==
    IF v > Len(d.check_messages) THEN d
    ELSE LET r == send_var_messages_no_clip(d.input_llrs[v], d.check_messages[v])
             d2 == [d EXCEPT !.output_llrs[v] = r.llr,
                             !.variable_messages = SendAll(d.variable_messages, v, r.sent)]
         IN  IF Computed(d2) THEN PhiVariableNodes(d2, v + 1) ELSE d

\* The loop "for iteration in 1..=max_iterations" of decode and what follows
\* it, with Phif64.
RECURSIVE PhiIterate(_, _, _, _)
PhiIterate(d, hm, iteration, max_iterations) ==
    IF iteration > max_iterations
    THEN [dec |-> d,
          res |-> [ok |-> FALSE, codeword |-> hard_decisions(OutputHard(d)),
                   iterations |-> max_iterations]]
    ELSE LET d2 == PhiVariableNodes(
                       [d EXCEPT !.check_messages =
                            PhiCheckNodes(d.check_messages, d.variable_messages, 1)], 1)
         IN  IF check_llrs(hm, OutputHard(d2))
             THEN [dec |-> d2,
                   res |-> [ok |-> TRUE, codeword |-> hard_decisions(OutputHard(d2)),
                            iterations |-> iteration]]
             ELSE PhiIterate(d2, hm, iteration + 1, max_iterations)

\* flooding::Decoder::decode with Phif64.
PhiDecode(d, hm, raw, max_iterations) ==
    IF check_llrs(hm, RawHard(raw))
    THEN [dec |-> d,
          res |-> [ok |-> TRUE, codeword |-> hard_decisions(RawHard(raw)), iterations |-> 0]]
    ELSE PhiIterate(PhiInitialize(d, hm, raw), hm, 1, max_iterations)

\* test_decoder: the parity check matrix of the tests of flooding.rs.
TestMatrix == FromRows(6, <<<<1, 2, 4>>, <<2, 3, 5>>, <<1, 5, 6>>, <<3, 4, 6>>>>)

\* The codewords that are sent: the all-zero codeword and codeword_good of
\* the tests.
TestCodewords == {<<0, 0, 0, 0, 0, 0>>, <<0, 0, 1, 0, 1, 1>>}

\* to_llrs
to_llrs(bits) ==
    Collect([i \in 1..Len(bits) |-> IF bits[i] = 0 THEN LlrMagnitude ELSE -LlrMagnitude])

\* codeword_bad[j] ^= 1 (j from 1; 0 leaves the codeword as it is).
FlipBit(bits, j) == Collect([i \in 1..Len(bits) |-> IF i = j THEN 1 - bits[i] ELSE bits[i]])

\* test_decoder(): unit holds the decoder and the number of calls of decode.
PhiInit ==
    /\ NoDecoder
    /\ NoBerTest
    /\ unit = [fn |-> "new", d |-> FloodingNew(TestMatrix), calls |-> 0]
    /\ input = [codeword |-> <<>>, flipped |-> 0, max_iterations |-> 0]
    /\ output = NoResult

\* decode is called on the same decoder with the LLRs of a codeword in which
\* at most one bit is flipped.
DecodePhi ==
    /\ unit.calls < MaxPhiCalls
    /\ \E codeword \in TestCodewords, j \in 0..6, max_iterations \in {1, 100} :
          LET out == PhiDecode(unit.d, TestMatrix, to_llrs(FlipBit(codeword, j)),
                               max_iterations)
          IN  /\ unit' = [fn |-> "decode", d |-> out.dec, calls |-> unit.calls + 1]
              /\ input' = [codeword |-> codeword, flipped |-> j,
                           max_iterations |-> max_iterations]
              /\ output' = out.res
    /\ UNCHANGED <<decoderVars, berVars>>

PhiNext == DecodePhi

SpecPhi == PhiInit /\ [][PhiNext]_vars

\* C26: on the matrix of the tests the flooding decoder with Phif64, given
\* LLRs of magnitude 1.3863 that encode the all-zero codeword or the codeword
\* [0,0,1,0,1,1] of the test with exactly one bit flipped, returns Ok with the
\* original codeword and iterations = 1, for each of the 6 positions, the
\* same decoder being used for all calls.
C26_SingleErrorCorrected ==
    (/\ unit.fn = "decode"
     /\ input.flipped \in 1..6
     /\ input.codeword \in TestCodewords
     /\ SatisfiesH(TestMatrix, input.codeword))
        => output = [ok |-> TRUE, codeword |-> input.codeword, iterations |-> 1]

C26_Witness ==
    /\ unit.fn = "decode"
    /\ unit.calls = MaxPhiCalls
    /\ input.flipped = 6
    /\ input.codeword = <<0, 0, 1, 0, 1, 1>>
    /\ output = [ok |-> TRUE, codeword |-> <<0, 0, 1, 0, 1, 1>>, iterations |-> 1]
    /\ unit.d.output_llrs[6] < 0

\* ------------------------------------------------ slots of the message stores

StoreRows == 2

StoreCols == 3

MaxStoreIterations == 2

\* Messages::send finds a slot: the destination has a message whose source is
\* the sender (otherwise expect("message for source not found") panics).
HasSlot(msgs, source, destination) ==
    /\ destination \in 1..Len(msgs)
    /\ \E i \in 1..Len(msgs[destination]) : msgs[destination][i].source = source

\* Every send of the closure applied to the SentMessages of a node finds its
\* slot.
SendsFindSlot(msgs, source, sent) ==
    \A i \in 1..Len(sent) : HasSlot(msgs, source, sent[i].dest)

\* flooding::Decoder::new on a matrix, with an arithmetic.
StoreInit ==
    /\ NoDecoder
    /\ NoBerTest
    /\ \E hm \in UNION {AllMatrices(n, m) : n \in 1..StoreRows, m \in 1..StoreCols},
          a \in Arithmetics :
          unit = [fn |-> "new", hm |-> hm, a |-> a, iteration |-> 0, d |-> FloodingNew(hm)]
    /\ input = <<>>
    /\ output = [not_found |-> FALSE]

\* initialize, as decode calls it on a new or a used decoder.
StoreInitialize ==
    /\ unit.fn \in {"new", "process_variable_nodes"}
    /\ unit.fn = "new" \/ unit.iteration = MaxStoreIterations
    /\ \E raw \in [1..num_cols(unit.hm) -> {-48, 48}] :
          /\ unit' = [unit EXCEPT !.fn = "initialize", !.iteration = 0,
                                  !.d = initialize(unit.d, unit.hm, Collect(raw))]
          /\ input' = Collect(raw)
          /\ output' = [not_found |-> output.not_found
                           \/ \E v \in 1..num_cols(unit.hm) :
                                 \E i \in 1..Len(iter_col(unit.hm, v)) :
                                     ~HasSlot(unit.d.variable_messages, v,
                                              iter_col(unit.hm, v)[i])]
    /\ UNCHANGED <<decoderVars, berVars>>

\* process_check_nodes
StoreCheckNodes ==
    /\ unit.fn \in {"initialize", "process_variable_nodes"}
    /\ unit.iteration < MaxStoreIterations
    /\ unit' = [unit EXCEPT !.fn = "process_check_nodes",
                            !.d = process_check_nodes(unit.d, unit.a)]
    /\ output' = [not_found |-> output.not_found
                     \/ \E c \in 1..Len(unit.d.variable_messages) :
                           ~SendsFindSlot(unit.d.check_messages, c,
                                send_check_messages(unit.a, unit.d.variable_messages[c]))]
    /\ UNCHANGED <<decoderVars, berVars, input>>

\* process_variable_nodes
StoreVariableNodes ==
    /\ unit.fn = "process_check_nodes"
    /\ unit' = [unit EXCEPT !.fn = "process_variable_nodes", !.iteration = @ + 1,
                            !.d = process_variable_nodes(unit.d, unit.a)]
    /\ output' = [not_found |-> output.not_found
                     \/ \E v \in 1..Len(unit.d.check_messages) :
                           ~SendsFindSlot(unit.d.variable_messages, v,
                                send_var_messages(unit.a, unit.d.input_llrs[v],
                                                  unit.d.check_messages[v]).sent)]
    /\ UNCHANGED <<decoderVars, berVars, input>>

StoreNext == StoreInitialize \/ StoreCheckNodes \/ StoreVariableNodes

SpecStore == StoreInit /\ [][StoreNext]_vars

\* The number of slots of a destination whose source is the given node.
SlotsOf(msgs, source, destination) ==
    Cardinality({i \in 1..Len(msgs[destination]) : msgs[destination][i].source = source})

\* C27: the message stores built by flooding Decoder::new have exactly one
\* slot per one of H (none missing, none twice), and every send of
\* initialize, process_check_nodes and process_variable_nodes finds its slot,
\* so that the panic "message for source not found" is not reached.
C27_OneSlotPerOne ==
    unit.fn # "none" =>
        /\ Len(unit.d.check_messages) = num_cols(unit.hm)
        /\ Len(unit.d.variable_messages) = num_rows(unit.hm)
        /\ \A r \in 1..num_rows(unit.hm), c \in 1..num_cols(unit.hm) :
              /\ SlotsOf(unit.d.check_messages, r, c) = IF Contains(unit.hm, r, c) THEN 1 ELSE 0
              /\ SlotsOf(unit.d.variable_messages, c, r) = IF Contains(unit.hm, r, c) THEN 1 ELSE 0
        /\ ~output.not_found

C27_Witness ==
    /\ unit.fn = "process_variable_nodes"
    /\ unit.iteration = MaxStoreIterations
    /\ num_rows(unit.hm) = StoreRows
    /\ num_cols(unit.hm) = StoreCols
    /\ Len(iter_col(unit.hm, 1)) = 2
    /\ Len(iter_col(unit.hm, 2)) = 0
    /\ Len(iter_row(unit.hm, 2)) = 2
    /\ unit.d.variable_messages[2][1].value # 0
    /\ ~output.not_found

\* ---------------------------------------------------------------- C28

\* The results a worker has sent on the results channel of the current
\* Eb/N0: one per frame it has started, but for the frame it is simulating.
ResultsSentBy(w) == frames[w] - (IF wpc[w] = "sim" THEN 1 ELSE 0)

\* The messages the aggregator has taken from the results channel of the
\* current Eb/N0: the frames it has counted and the Err(()) that ended the
\* loop.
ResultsTaken == current_statistics.num_frames + (IF received_sentinel # 0 THEN 1 ELSE 0)

\* C28: all workers of an Eb/N0 have been joined before a worker of the next
\* Eb/N0 is spawned, and each Eb/N0 has a results channel of its own: the
\* frames counted in the statistics of an Eb/N0 and the messages waiting in
\* its channel are exactly the results its own workers have sent, so that no
\* frame simulated at one Eb/N0 is counted at another.
C28_PointsAreSeparate ==
    /\ apc = "spawn" => \A w \in Workers : wpc[w] = "none" \/ Exited(wpc[w])
    /\ simulate(test.geometry) # "panic" =>
          ResultsTaken + Len(results) = SumSeq(Collect([w \in Workers |-> ResultsSentBy(w)]))
    /\ \A p \in 1..Len(statistics) : statistics[p].ebn0 = p

\* A frame has been counted in the second Eb/N0 after the first Eb/N0 was
\* closed with one frame and its workers were joined.
C28_Witness ==
    /\ point = 2
    /\ apc = "recv"
    /\ current_statistics.num_frames = 1
    /\ Len(statistics) = 1
    /\ statistics[1].num_frames = 1
    /\ test.max_frame_errors = 1

\* ---------------------------------------------------------------- C29

\* The sender of a worker's terminate channel is in the workers vector from
\* the spawn on, and is dropped when the join loop has taken that worker's
\* pair out of the vector and joined it (or when do_run unwinds).
TerminateTxHeld(w) ==
    \/ apc \in {"recv", "close", "signal"}
    \/ apc = "join" /\ turn <= w

\* The receiver of the results channel is a local of the loop body of
\* do_run: it is dropped when the body ends, after the join loop, or when
\* do_run returns or unwinds.
ResultsRxHeld == apc \in {"recv", "close", "signal", "join"}

\* C29: when no frame simulation panics (and the reporter's receiver stays
\* alive), a running worker's terminate channel still has its sender or a
\* buffered signal and the results channel still has its receiver, so that
\* the poll never observes Disconnected and the send of a result never
\* fails, also when other workers have failed or have been joined; no worker
\* and no join panics.
C29_ChannelsOutliveWorkers ==
    simulate(test.geometry) # "panic" =>
        /\ \A w \in Workers :
              wpc[w] \in {"poll", "sim"} =>
                  /\ TerminateTxHeld(w) \/ terminate[w] > 0
                  /\ ResultsRxHeld
        /\ \A w \in Workers : wpc[w] # "panic"
        /\ apc # "panicked"

\* The first worker has failed and has been joined while the second one is
\* still simulating a frame.
C29_Witness ==
    /\ apc = "join"
    /\ turn = 2
    /\ wpc[1] = "err"
    /\ wpc[2] = "sim"

\* ---------------------------------------------------------------- C30

\* The inequalities between the counters of a CurrentStatistics or a
\* Statistics.
CountersOrdered(s) ==
    /\ s.false_decodes <= s.ldpc.frame_errors
    /\ s.ldpc.frame_errors <= s.num_frames
    /\ s.ldpc.frame_errors <= s.ldpc.bit_errors
    /\ s.ldpc.correct_iterations <= s.total_iterations
    /\ s.has_bch => /\ s.bch.frame_errors <= s.ldpc.frame_errors
                    /\ s.bch.bit_errors <= s.ldpc.bit_errors
                    /\ s.num_frames - s.bch.frame_errors >= 0
    /\ s.num_frames - s.ldpc.frame_errors >= 0

\* C30: in every state of the aggregator and in every Statistics it emits or
\* returns, false_decodes <= ldpc.frame_errors <= num_frames,
\* ldpc.frame_errors <= ldpc.bit_errors, ldpc.correct_iterations <=
\* total_iterations and, with BCH, bch.frame_errors <= ldpc.frame_errors and
\* bch.bit_errors <= ldpc.bit_errors, so that num_frames - frame_errors does
\* not underflow for either code.
C30_CountersOrdered ==
    /\ CountersOrdered(current_statistics)
    /\ \A p \in 1..Len(statistics) : CountersOrdered(statistics[p])

\* A returned Statistics with BCH in which a frame has been counted as a
\* false decode and as a BCH frame error, and another as correct.
C30_Witness ==
    /\ ret.kind = "Ok"
    /\ Len(statistics) = NumPoints
    /\ statistics[1].has_bch
    /\ statistics[1].false_decodes = 1
    /\ statistics[1].bch.frame_errors = 1
    /\ statistics[1].num_frames = 2
    /\ statistics[1].ldpc.correct_iterations = 1

====
